---- MODULE Spec2Model ----
(***************************************************************************)
(* ESP-UniPwn: the BLE configuration protocol of the robot emulator        *)
(* (esp32-emulator/src/main.cpp, the responder) and of the device scanner  *)
(* (the initiator).  Bytes are the integers 0..255, byte strings and       *)
(* Arduino Strings are sequences of bytes.                                 *)
(***************************************************************************)
EXTENDS Integers, Sequences, FiniteSets, TLC

VARIABLES
  emulator,        \* the global UniTreeEmulator object
  connected,       \* a client is connected to the BLE server
  notified,        \* the values the latest callback pushed with notify()
  lastCallback,    \* the transport callback that ran last
  lastPacket,      \* the packet the latest onWrite decrypted (<<>>: none)
  passphraseSeen,  \* history: a passphrase Handshake was dispatched on this connection
  priorSession,    \* history: the session the latest onDisconnect discarded
  ret,             \* the result code of the cipher primitive in the latest onWrite
  cipher,          \* the latest call of the codec and the feedback register it left
  scanner,         \* the initiator's serial collector
  arrivals,        \* history: the notifications the collector received since it was empty
  initiator,       \* the scanner firmware: its globals, its NVS namespace, where loop() is
  inFlight         \* the notifications of the responder on their way to the initiator

----------------------------------------------------------------------------
(* Protocol constants                                                      *)

\* const uint8_t AES_KEY[16]
AES_KEY == <<223, 152, 183, 21, 213, 198, 237, 43, 37, 129, 123, 111, 37, 84, 18, 74>>

\* const uint8_t AES_IV[16]
AES_IV == <<40, 65, 174, 151, 65, 156, 41, 115, 41, 106, 13, 75, 223, 225, 154, 79>>

OPCODE_REQUEST == 82
OPCODE_RESPONSE == 81

INSTR_HANDSHAKE == 1
INSTR_GET_SERIAL == 2
INSTR_INIT_WIFI == 3
INSTR_SET_SSID == 4
INSTR_SET_PASSWORD == 5
INSTR_SET_COUNTRY == 6

\* #define SERIAL_NUMBER "ESP32-EMULATOR-v1.0-TESTDEVICE"
SERIAL_NUMBER ==
  <<69, 83, 80, 51, 50, 45, 69, 77, 85, 76, 65, 84, 79, 82, 45,
    118, 49, 46, 48, 45, 84, 69, 83, 84, 68, 69, 86, 73, 67, 69>>

\* DEVICE_NAME "Go2_ESP32EMU"
DEVICE_NAME == <<71, 111, 50, 95, 69, 83, 80, 51, 50, 69, 77, 85>>

\* the literal "unitree" that handleHandshake compares against
PASSPHRASE == <<117, 110, 105, 116, 114, 101, 101>>

----------------------------------------------------------------------------
(* Byte arithmetic                                                         *)

\* a ^ b of two 4-bit values, by table
XorNibble ==
  <<
     << 0,  1,  2,  3,  4,  5,  6,  7,  8,  9, 10, 11, 12, 13, 14, 15>>,
     << 1,  0,  3,  2,  5,  4,  7,  6,  9,  8, 11, 10, 13, 12, 15, 14>>,
     << 2,  3,  0,  1,  6,  7,  4,  5, 10, 11,  8,  9, 14, 15, 12, 13>>,
     << 3,  2,  1,  0,  7,  6,  5,  4, 11, 10,  9,  8, 15, 14, 13, 12>>,
     << 4,  5,  6,  7,  0,  1,  2,  3, 12, 13, 14, 15,  8,  9, 10, 11>>,
     << 5,  4,  7,  6,  1,  0,  3,  2, 13, 12, 15, 14,  9,  8, 11, 10>>,
     << 6,  7,  4,  5,  2,  3,  0,  1, 14, 15, 12, 13, 10, 11,  8,  9>>,
     << 7,  6,  5,  4,  3,  2,  1,  0, 15, 14, 13, 12, 11, 10,  9,  8>>,
     << 8,  9, 10, 11, 12, 13, 14, 15,  0,  1,  2,  3,  4,  5,  6,  7>>,
     << 9,  8, 11, 10, 13, 12, 15, 14,  1,  0,  3,  2,  5,  4,  7,  6>>,
     <<10, 11,  8,  9, 14, 15, 12, 13,  2,  3,  0,  1,  6,  7,  4,  5>>,
     <<11, 10,  9,  8, 15, 14, 13, 12,  3,  2,  1,  0,  7,  6,  5,  4>>,
     <<12, 13, 14, 15,  8,  9, 10, 11,  4,  5,  6,  7,  0,  1,  2,  3>>,
     <<13, 12, 15, 14,  9,  8, 11, 10,  5,  4,  7,  6,  1,  0,  3,  2>>,
     <<14, 15, 12, 13, 10, 11,  8,  9,  6,  7,  4,  5,  2,  3,  0,  1>>,
     <<15, 14, 13, 12, 11, 10,  9,  8,  7,  6,  5,  4,  3,  2,  1,  0>> >>

\* a ^ b on bytes
Xor(a, b) ==
  16 * XorNibble[(a \div 16) + 1][(b \div 16) + 1] + XorNibble[(a % 16) + 1][(b % 16) + 1]

\* the elementwise a[i] ^ b[i] of two 16-byte blocks
XorBlock(a, b) == SubSeq([i \in 1..16 |-> Xor(a[i], b[i])], 1, 16)

----------------------------------------------------------------------------
(* AES-128 block encryption (mbedtls_aes_setkey_enc + the forward cipher   *)
(* that mbedtls_aes_crypt_cfb128 runs in both directions), FIPS-197.       *)
(* A block is 16 bytes in column-major order.                              *)

SBox == <<
     99, 124, 119, 123, 242, 107, 111, 197,  48,   1, 103,  43, 254, 215, 171, 118,
    202, 130, 201, 125, 250,  89,  71, 240, 173, 212, 162, 175, 156, 164, 114, 192,
    183, 253, 147,  38,  54,  63, 247, 204,  52, 165, 229, 241, 113, 216,  49,  21,
      4, 199,  35, 195,  24, 150,   5, 154,   7,  18, 128, 226, 235,  39, 178, 117,
      9, 131,  44,  26,  27, 110,  90, 160,  82,  59, 214, 179,  41, 227,  47, 132,
     83, 209,   0, 237,  32, 252, 177,  91, 106, 203, 190,  57,  74,  76,  88, 207,
    208, 239, 170, 251,  67,  77,  51, 133,  69, 249,   2, 127,  80,  60, 159, 168,
     81, 163,  64, 143, 146, 157,  56, 245, 188, 182, 218,  33,  16, 255, 243, 210,
    205,  12,  19, 236,  95, 151,  68,  23, 196, 167, 126,  61, 100,  93,  25, 115,
     96, 129,  79, 220,  34,  42, 144, 136,  70, 238, 184,  20, 222,  94,  11, 219,
    224,  50,  58,  10,  73,   6,  36,  92, 194, 211, 172,  98, 145, 149, 228, 121,
    231, 200,  55, 109, 141, 213,  78, 169, 108,  86, 244, 234, 101, 122, 174,   8,
    186, 120,  37,  46,  28, 166, 180, 198, 232, 221, 116,  31,  75, 189, 139, 138,
    112,  62, 181, 102,  72,   3, 246,  14,  97,  53,  87, 185, 134, 193,  29, 158,
    225, 248, 152,  17, 105, 217, 142, 148, 155,  30, 135, 233, 206,  85,  40, 223,
    140, 161, 137,  13, 191, 230,  66, 104,  65, 153,  45,  15, 176,  84, 187,  22>>

\* multiplication by x in GF(2^8) modulo x^8 + x^4 + x^3 + x + 1
XTime(a) == IF a >= 128 THEN Xor((2 * a) % 256, 27) ELSE 2 * a

\* multiplication by x + 1 in GF(2^8)
Mul3(a) == Xor(XTime(a), a)

SubBytes(s) == SubSeq([i \in 1..16 |-> SBox[s[i] + 1]], 1, 16)

ShiftRows(s) ==
  SubSeq([i \in 1..16 |-> s[(((i - 1) + 4 * ((i - 1) % 4)) % 16) + 1]], 1, 16)

\* byte i of the state lies in row (i - 1) % 4 of the column that starts
\* after byte c; it becomes 2*a0 + 3*a1 + a2 + a3 of that column, rotated
\* to start at its own row
MixColumns(s) ==
  SubSeq([i \in 1..16 |->
            LET c == 4 * ((i - 1) \div 4)
                r == (i - 1) % 4
            IN Xor(Xor(XTime(s[c + r + 1]), Mul3(s[c + ((r + 1) % 4) + 1])),
                   Xor(s[c + ((r + 2) % 4) + 1], s[c + ((r + 3) % 4) + 1]))],
         1, 16)

\* SubWord(RotWord(prev)) xor Rcon
RotSubWord(prev, rc) ==
  SubSeq([j \in 1..4 |-> Xor(SBox[prev[(j % 4) + 1] + 1], IF j = 1 THEN rc ELSE 0)],
         1, 4)

KeyWord(old, t) == SubSeq([j \in 1..4 |-> Xor(old[j], t[j])], 1, 4)

RECURSIVE ExpandKey(_, _, _)
\* the key schedule: w holds the bytes of the i words computed so far,
\* rc the round constant of the next round key
ExpandKey(w, i, rc) ==
  IF i >= 44 THEN w
  ELSE ExpandKey(w \o KeyWord(SubSeq(w, 4 * i - 15, 4 * i - 12),
                              IF i % 4 = 0
                              THEN RotSubWord(SubSeq(w, 4 * i - 3, 4 * i), rc)
                              ELSE SubSeq(w, 4 * i - 3, 4 * i)),
                 i + 1,
                 IF i % 4 = 0 THEN XTime(rc) ELSE rc)

\* aes_ctx after initCrypto(): the 176 bytes of the schedule of AES_KEY
aes_ctx == ExpandKey(AES_KEY, 4, 1)

RoundKey(r) == SubSeq(aes_ctx, 16 * r + 1, 16 * r + 16)

RECURSIVE AesRounds(_, _)
\* rounds r..10 on the 16-byte state s
AesRounds(s, r) ==
  IF Len(s) # 16 THEN s
  ELSE IF r = 10
  THEN XorBlock(ShiftRows(SubBytes(s)), RoundKey(10))
  ELSE AesRounds(XorBlock(MixColumns(ShiftRows(SubBytes(s))), RoundKey(r)), r + 1)

\* one forward AES-128 block operation under aes_ctx
AesEncryptBlock(block) == AesRounds(XorBlock(block, RoundKey(0)), 1)

----------------------------------------------------------------------------
(* Crypto framing: both roles run AES-CFB128 over the whole packet, every  *)
(* call from a fresh copy of AES_IV and iv_offset 0.                       *)

MBEDTLS_AES_ENCRYPT == 1
MBEDTLS_AES_DECRYPT == 0

\* AesEncryptBlock(AES_IV): what the n = 0 step of every call computes first
IvKeystream == AesEncryptBlock(AES_IV)

\* mbedtls_aes_crypt_ecb(ctx, MBEDTLS_AES_ENCRYPT, iv, iv)
mbedtls_aes_crypt_ecb(block) ==
  IF block = AES_IV THEN IvKeystream ELSE AesEncryptBlock(block)

\* the first up to 16 bytes of input, xored with the keystream block
CfbBlock(input, keystream) ==
  LET m == IF Len(input) < 16 THEN Len(input) ELSE 16
  IN SubSeq([i \in 1..m |-> Xor(input[i], keystream[i])], 1, m)

RECURSIVE mbedtls_aes_crypt_cfb128(_, _, _)

\* out is the block just produced; the feedback register becomes that
\* block's ciphertext (the input when decrypting, the output when encrypting)
CfbFeedback(mode, input, out) ==
  out \o mbedtls_aes_crypt_cfb128(
           mode,
           IF mode = MBEDTLS_AES_DECRYPT THEN SubSeq(input, 1, 16) ELSE out,
           SubSeq(input, 17, Len(input)))

\* CFB128 with iv_off 0: each block of up to 16 input bytes is xored with the
\* encryption of the feedback register
mbedtls_aes_crypt_cfb128(mode, iv, input) ==
  IF input = <<>> THEN <<>>
  ELSE CfbFeedback(mode, input, CfbBlock(input, mbedtls_aes_crypt_ecb(iv)))

\* A faulty decryptData that hands the primitive MBEDTLS_AES_ENCRYPT
DecryptInEncryptMode(data) ==
  mbedtls_aes_crypt_cfb128(MBEDTLS_AES_ENCRYPT, AES_IV, data)

decryptData(data) ==
  mbedtls_aes_crypt_cfb128(MBEDTLS_AES_DECRYPT, AES_IV, data)

\* A faulty encryptData that goes on from the register the latest call left
EncryptFromCarriedRegister(data) ==
  mbedtls_aes_crypt_cfb128(MBEDTLS_AES_ENCRYPT, cipher.iv_copy, data)

encryptData(data) ==
  mbedtls_aes_crypt_cfb128(MBEDTLS_AES_ENCRYPT, AES_IV, data)

----------------------------------------------------------------------------
(* Packet codec                                                            *)

RECURSIVE ByteSum(_)
\* uint32_t sum over the bytes of data; a long packet is added up by halves
\* (the sum of at most 258 bytes stays far below 2^32, whatever the order)
ByteSum(data) ==
  IF data = <<>> THEN 0
  ELSE IF Len(data) <= 32 THEN Head(data) + ByteSum(Tail(data))
  ELSE ByteSum(SubSeq(data, 1, Len(data) \div 2))
         + ByteSum(SubSeq(data, Len(data) \div 2 + 1, Len(data)))

\* (-sum) & 0xFF
\* A faulty calculateChecksum that returns the sum instead of its negation
ChecksumWithoutNegation(data) == ByteSum(data) % 256

calculateChecksum(data) == (256 - (ByteSum(data) % 256)) % 256

\* A faulty validateChecksum that keeps the size test and skips the sum
ChecksumSizeOnly(packet) == Len(packet) >= 4

validateChecksum(packet) ==
  IF Len(packet) < 4 THEN FALSE ELSE ByteSum(packet) % 256 = 0

\* A faulty createResponse whose length leaves out the checksum byte
CreateResponseWithoutChecksumInLength(instruction, data) ==
  LET length == (1 + Len(data) + 2) % 256
      packet == <<OPCODE_RESPONSE, length, instruction>> \o data
  IN encryptData(Append(packet, calculateChecksum(packet)))

\* the responder's encoder; uint8_t length = 1 + data.size() + 1 + 2
createResponse(instruction, data) ==
  LET length == (1 + Len(data) + 1 + 2) % 256
      packet == <<OPCODE_RESPONSE, length, instruction>> \o data
  IN encryptData(Append(packet, calculateChecksum(packet)))

\* the initiator's packet before encryption (full_data in createPacket)
full_data(instruction, data_bytes) ==
  LET instruction_data == <<instruction>> \o data_bytes
      length == (Len(instruction_data) + 3) % 256
      body == <<OPCODE_REQUEST, length>> \o instruction_data
  IN Append(body, calculateChecksum(body))

\* the initiator's encoder
createPacket(instruction, data_bytes) == encryptData(full_data(instruction, data_bytes))

----------------------------------------------------------------------------
(* The responder (esp32-emulator): session state and instruction handlers. *)
(* A handler takes the session and the decrypted packet and yields the     *)
(* session it leaves and the encrypted response it returns (<<>>: none).   *)

vars ==
  <<emulator, connected, notified, lastCallback, lastPacket, passphraseSeen, priorSession,
    ret, cipher, scanner, arrivals, initiator, inFlight>>

\* the member initialisers of UniTreeEmulator
UniTreeEmulator ==
  [ authenticated |-> FALSE,
    ssid |-> <<>>,
    password |-> <<>>,
    country |-> <<>>,
    ssidBuffer |-> <<>>,
    passwordBuffer |-> <<>>,
    ssidChunksReceived |-> 0,
    passwordChunksReceived |-> 0,
    ssidTotalChunks |-> 0,
    passwordTotalChunks |-> 0 ]

\* A faulty reset() that leaves the authenticated flag as it was
ResetKeepingAuthenticated(em) ==
  [em EXCEPT !.ssid = <<>>,
             !.password = <<>>,
             !.country = <<>>,
             !.ssidBuffer = <<>>,
             !.passwordBuffer = <<>>,
             !.ssidChunksReceived = 0,
             !.passwordChunksReceived = 0,
             !.ssidTotalChunks = 0,
             !.passwordTotalChunks = 0]

\* A faulty reset() that leaves the reassembly buffers and counters as they were
ResetKeepingBuffers(em) ==
  [em EXCEPT !.authenticated = FALSE,
             !.ssid = <<>>,
             !.password = <<>>,
             !.country = <<>>,
             !.ssidTotalChunks = 0,
             !.passwordTotalChunks = 0]

\* UniTreeEmulator::reset()
reset(em) ==
  [em EXCEPT !.authenticated = FALSE,
             !.ssid = <<>>,
             !.password = <<>>,
             !.country = <<>>,
             !.ssidBuffer = <<>>,
             !.passwordBuffer = <<>>,
             !.ssidChunksReceived = 0,
             !.passwordChunksReceived = 0,
             !.ssidTotalChunks = 0,
             !.passwordTotalChunks = 0]

\* A faulty handleHandshake that returns no response for a short packet
HandshakeDroppingShort(em, packet) ==
  IF Len(packet) < 12
  THEN [em |-> em, response |-> <<>>]
  ELSE IF SubSeq(packet, 6, Len(packet) - 1) = PASSPHRASE
  THEN [em |-> [em EXCEPT !.authenticated = TRUE],
        response |-> createResponse(INSTR_HANDSHAKE, <<1>>)]
  ELSE [em |-> [em EXCEPT !.authenticated = FALSE],
        response |-> createResponse(INSTR_HANDSHAKE, <<0>>)]

\* A faulty handleHandshake that refuses every passphrase
HandshakeRefused(em, packet) ==
  [em |-> [em EXCEPT !.authenticated = FALSE],
   response |-> createResponse(INSTR_HANDSHAKE, <<0>>)]

\* Instruction 1.  authString is packet[5 .. size-2]
handleHandshake(em, packet) ==
  IF Len(packet) < 12
  THEN [em |-> em, response |-> createResponse(INSTR_HANDSHAKE, <<0>>)]
  ELSE LET authString == SubSeq(packet, 6, Len(packet) - 1)
       IN IF authString = PASSPHRASE
          THEN [em |-> [em EXCEPT !.authenticated = TRUE],
                response |-> createResponse(INSTR_HANDSHAKE, <<1>>)]
          ELSE [em |-> [em EXCEPT !.authenticated = FALSE],
                response |-> createResponse(INSTR_HANDSHAKE, <<0>>)]

\* A faulty handleGetSerial that does not look at the authenticated flag
SerialWithoutAuthentication(em, packet) ==
  [em |-> em,
   response |-> createResponse(INSTR_GET_SERIAL, <<1, 1>> \o SERIAL_NUMBER)]

\* the serial in one chunk: createResponse(INSTR_GET_SERIAL, [0x01, 0x01, serial...])
SerialResponse == createResponse(INSTR_GET_SERIAL, <<1, 1>> \o SERIAL_NUMBER)

\* Instruction 2
handleGetSerial(em, packet) ==
  IF ~em.authenticated
  THEN [em |-> em, response |-> createResponse(INSTR_GET_SERIAL, <<0>>)]
  ELSE [em |-> em, response |-> SerialResponse]

\* Instruction 3.  The mode byte packet[3] is only logged
\* A faulty handleInitWiFi that rejects a mode other than AP and STA
InitWiFiRejectingUnknownMode(em, packet) ==
  IF Len(packet) < 4 \/ packet[4] \notin {1, 2}
  THEN [em |-> em, response |-> createResponse(INSTR_INIT_WIFI, <<0>>)]
  ELSE [em |-> em, response |-> createResponse(INSTR_INIT_WIFI, <<1>>)]

\* Instruction 3.  mode = packet[3] is only logged
handleInitWiFi(em, packet) ==
  IF Len(packet) < 4
  THEN [em |-> em, response |-> createResponse(INSTR_INIT_WIFI, <<0>>)]
  ELSE [em |-> em, response |-> createResponse(INSTR_INIT_WIFI, <<1>>)]

\* A faulty handleSetSSID that puts the chunk with index 1 in front
SetSSIDOrderedByIndex(em, packet) ==
  IF Len(packet) < 5
  THEN [em |-> em, response |-> createResponse(INSTR_SET_SSID, <<0>>)]
  ELSE LET totalChunks == packet[5]
           buffer == IF packet[4] = 1
                     THEN SubSeq(packet, 6, Len(packet) - 1) \o em.ssidBuffer
                     ELSE em.ssidBuffer \o SubSeq(packet, 6, Len(packet) - 1)
           received == em.ssidChunksReceived + 1
       IN IF received >= totalChunks
          THEN [em |-> [em EXCEPT !.ssid = buffer,
                                  !.ssidBuffer = <<>>,
                                  !.ssidChunksReceived = 0],
                response |-> createResponse(INSTR_SET_SSID, <<1>>)]
          ELSE [em |-> [em EXCEPT !.ssidBuffer = buffer,
                                  !.ssidChunksReceived = received],
                response |-> <<>>]

\* A faulty handleSetSSID that answers every chunk
SetSSIDAnsweringEveryChunk(em, packet) ==
  IF Len(packet) < 5
  THEN [em |-> em, response |-> createResponse(INSTR_SET_SSID, <<0>>)]
  ELSE IF em.ssidChunksReceived + 1 >= packet[5]
  THEN [em |-> [em EXCEPT !.ssid = em.ssidBuffer \o SubSeq(packet, 6, Len(packet) - 1),
                          !.ssidBuffer = <<>>,
                          !.ssidChunksReceived = 0],
        response |-> createResponse(INSTR_SET_SSID, <<1>>)]
  ELSE [em |-> [em EXCEPT !.ssidBuffer = em.ssidBuffer \o SubSeq(packet, 6, Len(packet) - 1),
                          !.ssidChunksReceived = em.ssidChunksReceived + 1],
        response |-> createResponse(INSTR_SET_SSID, <<1>>)]

\* Instruction 4.  totalChunks is packet[4], the chunk data packet[5 .. size-2]
handleSetSSID(em, packet) ==
  IF Len(packet) < 5
  THEN [em |-> em, response |-> createResponse(INSTR_SET_SSID, <<0>>)]
  ELSE LET totalChunks == packet[5]
           buffer == em.ssidBuffer \o SubSeq(packet, 6, Len(packet) - 1)
           received == em.ssidChunksReceived + 1
       IN IF received >= totalChunks
          THEN [em |-> [em EXCEPT !.ssid = buffer,
                                  !.ssidBuffer = <<>>,
                                  !.ssidChunksReceived = 0],
                response |-> createResponse(INSTR_SET_SSID, <<1>>)]
          ELSE [em |-> [em EXCEPT !.ssidBuffer = buffer,
                                  !.ssidChunksReceived = received],
                response |-> <<>>]

\* String::indexOf(pattern) >= 0
Contains(s, pattern) ==
  \E i \in 1..Len(s) :
     i + Len(pattern) - 1 <= Len(s) /\ SubSeq(s, i, i + Len(pattern) - 1) = pattern

\* the condition of the injection warning: password contains ";$(", "`;",
\* "&&" or "||"
InjectionDetected(password) ==
  \/ Contains(password, <<59, 36, 40>>)
  \/ Contains(password, <<96, 59>>)
  \/ Contains(password, <<38, 38>>)
  \/ Contains(password, <<124, 124>>)

\* A faulty handleSetPassword that refuses a password the scan flags
SetPasswordRejectingInjection(em, packet) ==
  IF Len(packet) < 5
  THEN [em |-> em, response |-> createResponse(INSTR_SET_PASSWORD, <<0>>)]
  ELSE IF em.passwordChunksReceived + 1 < packet[5]
  THEN [em |-> [em EXCEPT !.passwordBuffer = em.passwordBuffer \o SubSeq(packet, 6, Len(packet) - 1),
                          !.passwordChunksReceived = em.passwordChunksReceived + 1],
        response |-> <<>>]
  ELSE IF InjectionDetected(em.passwordBuffer \o SubSeq(packet, 6, Len(packet) - 1))
  THEN [em |-> [em EXCEPT !.passwordBuffer = <<>>,
                          !.passwordChunksReceived = 0],
        response |-> createResponse(INSTR_SET_PASSWORD, <<0>>)]
  ELSE [em |-> [em EXCEPT !.password = em.passwordBuffer \o SubSeq(packet, 6, Len(packet) - 1),
                          !.passwordBuffer = <<>>,
                          !.passwordChunksReceived = 0],
        response |-> createResponse(INSTR_SET_PASSWORD, <<1>>)]

\* A faulty handleSetPassword whose completion also clears the SSID buffer
SetPasswordClearingSsid(em, packet) ==
  IF Len(packet) < 5
  THEN [em |-> em, response |-> createResponse(INSTR_SET_PASSWORD, <<0>>)]
  ELSE LET totalChunks == packet[5]
           buffer == em.passwordBuffer \o SubSeq(packet, 6, Len(packet) - 1)
           received == em.passwordChunksReceived + 1
       IN IF received >= totalChunks
          THEN [em |-> [em EXCEPT !.password = buffer,
                                  !.passwordBuffer = <<>>,
                                  !.passwordChunksReceived = 0,
                                  !.ssidBuffer = <<>>,
                                  !.ssidChunksReceived = 0],
                response |-> createResponse(INSTR_SET_PASSWORD, <<1>>)]
          ELSE [em |-> [em EXCEPT !.passwordBuffer = buffer,
                                  !.passwordChunksReceived = received],
                response |-> <<>>]

\* Instruction 5.  The injection scan (InjectionDetected of the resolved
\* password) only prints a warning
handleSetPassword(em, packet) ==
  IF Len(packet) < 5
  THEN [em |-> em, response |-> createResponse(INSTR_SET_PASSWORD, <<0>>)]
  ELSE LET totalChunks == packet[5]
           buffer == em.passwordBuffer \o SubSeq(packet, 6, Len(packet) - 1)
           received == em.passwordChunksReceived + 1
       IN IF received >= totalChunks
          THEN [em |-> [em EXCEPT !.password = buffer,
                                  !.passwordBuffer = <<>>,
                                  !.passwordChunksReceived = 0],
                response |-> createResponse(INSTR_SET_PASSWORD, <<1>>)]
          ELSE [em |-> [em EXCEPT !.passwordBuffer = buffer,
                                  !.passwordChunksReceived = received],
                response |-> <<>>]

\* the bytes of s that are not 0x00, in order
NonZero(s) == SelectSeq(s, LAMBDA b : b # 0)

\* A faulty handleSetCountry that wants two bytes after the instruction
SetCountryNeedingTwoBytes(em, packet) ==
  IF Len(packet) < 6
  THEN [em |-> em, response |-> createResponse(INSTR_SET_COUNTRY, <<0>>)]
  ELSE [em |-> [em EXCEPT !.country = NonZero(SubSeq(packet, 5, Len(packet) - 1))],
        response |-> createResponse(INSTR_SET_COUNTRY, <<1>>)]

\* A faulty handleSetCountry that reads the country from packet[3] on
SetCountryFromFirstByte(em, packet) ==
  IF Len(packet) < 5
  THEN [em |-> em, response |-> createResponse(INSTR_SET_COUNTRY, <<0>>)]
  ELSE [em |-> [em EXCEPT !.country = NonZero(SubSeq(packet, 4, Len(packet) - 1))],
        response |-> createResponse(INSTR_SET_COUNTRY, <<1>>)]

\* A faulty handleSetCountry that consumes the configuration it applies
SetCountryClearingConfig(em, packet) ==
  IF Len(packet) < 5
  THEN [em |-> em, response |-> createResponse(INSTR_SET_COUNTRY, <<0>>)]
  ELSE [em |-> [em EXCEPT !.country = NonZero(SubSeq(packet, 5, Len(packet) - 1)),
                          !.ssid = <<>>,
                          !.password = <<>>],
        response |-> createResponse(INSTR_SET_COUNTRY, <<1>>)]

\* Instruction 6.  country is the non-zero bytes of packet[4 .. size-2]
handleSetCountry(em, packet) ==
  IF Len(packet) < 5
  THEN [em |-> em, response |-> createResponse(INSTR_SET_COUNTRY, <<0>>)]
  ELSE [em |-> [em EXCEPT !.country = NonZero(SubSeq(packet, 5, Len(packet) - 1))],
        response |-> createResponse(INSTR_SET_COUNTRY, <<1>>)]

\* A faulty switch that refuses the configuration instructions of a session
\* that is not authenticated
DispatchRequiringAuthentication(em, decrypted) ==
  LET instruction == decrypted[3]
  IN CASE instruction = INSTR_HANDSHAKE -> handleHandshake(em, decrypted)
       [] instruction = INSTR_GET_SERIAL -> handleGetSerial(em, decrypted)
       [] instruction \in {INSTR_INIT_WIFI, INSTR_SET_SSID, INSTR_SET_PASSWORD,
                           INSTR_SET_COUNTRY} /\ ~em.authenticated ->
            [em |-> em, response |-> createResponse(instruction, <<0>>)]
       [] instruction = INSTR_INIT_WIFI -> handleInitWiFi(em, decrypted)
       [] instruction = INSTR_SET_SSID -> handleSetSSID(em, decrypted)
       [] instruction = INSTR_SET_PASSWORD -> handleSetPassword(em, decrypted)
       [] instruction = INSTR_SET_COUNTRY -> handleSetCountry(em, decrypted)
       [] OTHER -> [em |-> em, response |-> <<>>]

\* A faulty switch that answers an unknown instruction with a failure code
DispatchAnsweringUnknown(em, decrypted) ==
  LET instruction == decrypted[3]
  IN CASE instruction = INSTR_HANDSHAKE -> handleHandshake(em, decrypted)
       [] instruction = INSTR_GET_SERIAL -> handleGetSerial(em, decrypted)
       [] instruction = INSTR_INIT_WIFI -> handleInitWiFi(em, decrypted)
       [] instruction = INSTR_SET_SSID -> handleSetSSID(em, decrypted)
       [] instruction = INSTR_SET_PASSWORD -> handleSetPassword(em, decrypted)
       [] instruction = INSTR_SET_COUNTRY -> handleSetCountry(em, decrypted)
       [] OTHER -> [em |-> em, response |-> createResponse(instruction, <<0>>)]

\* the switch of processPacket; an unknown instruction returns without a response
dispatch(em, decrypted) ==
  LET instruction == decrypted[3]
  IN CASE instruction = INSTR_HANDSHAKE -> handleHandshake(em, decrypted)
       [] instruction = INSTR_GET_SERIAL -> handleGetSerial(em, decrypted)
       [] instruction = INSTR_INIT_WIFI -> handleInitWiFi(em, decrypted)
       [] instruction = INSTR_SET_SSID -> handleSetSSID(em, decrypted)
       [] instruction = INSTR_SET_PASSWORD -> handleSetPassword(em, decrypted)
       [] instruction = INSTR_SET_COUNTRY -> handleSetCountry(em, decrypted)
       [] OTHER -> [em |-> em, response |-> <<>>]

\* A faulty processPacket that drops a packet whose length byte differs from
\* its size
ProcessPacketCheckingLength(em, decrypted) ==
  IF Len(decrypted) < 4 THEN [em |-> em, notified |-> <<>>]
  ELSE IF decrypted[1] # OPCODE_REQUEST THEN [em |-> em, notified |-> <<>>]
  ELSE IF decrypted[2] # Len(decrypted) THEN [em |-> em, notified |-> <<>>]
  ELSE IF ~validateChecksum(decrypted) THEN [em |-> em, notified |-> <<>>]
  ELSE LET r == dispatch(em, decrypted)
       IN [em |-> r.em,
           notified |-> IF Len(r.response) > 0 THEN <<r.response>> ELSE <<>>]

\* processPacket: the session it leaves and the values it notifies.  A length
\* byte that differs from the size is only logged.  pNotifyCharacteristic is
\* set by setup() before any callback runs.
processPacket(em, decrypted) ==
  IF Len(decrypted) < 4 THEN [em |-> em, notified |-> <<>>]
  ELSE IF decrypted[1] # OPCODE_REQUEST THEN [em |-> em, notified |-> <<>>]
  ELSE IF ~validateChecksum(decrypted) THEN [em |-> em, notified |-> <<>>]
  ELSE LET r == dispatch(em, decrypted)
       IN [em |-> r.em,
           notified |-> IF Len(r.response) > 0 THEN <<r.response>> ELSE <<>>]

----------------------------------------------------------------------------
(* The wire format of a decrypted packet:                                  *)
(* [opcode, length, instruction, payload..., checksum]                     *)

Payload(packet) == SubSeq(packet, 4, Len(packet) - 1)

\* a request the responder's framing checks accept
ValidRequest(packet) ==
  /\ Len(packet) >= 4
  /\ packet[1] = OPCODE_REQUEST
  /\ ByteSum(packet) % 256 = 0

\* a validly framed request of the given instruction
RequestOf(packet, instruction) == ValidRequest(packet) /\ packet[3] = instruction

\* a Handshake request whose payload, after 2 reserved bytes, is the passphrase
PassphraseHandshake(packet) ==
  /\ RequestOf(packet, INSTR_HANDSHAKE)
  /\ Len(Payload(packet)) >= 2
  /\ SubSeq(Payload(packet), 3, Len(Payload(packet))) = PASSPHRASE

----------------------------------------------------------------------------
(* The packets a peer writes.  Text is ASCII: "Net", "Pass", "US", ...      *)

MaxChunks == 2

\* body followed by the checksum that makes the byte sum 0 modulo 256
WithChecksum(body) == Append(body, calculateChecksum(body))

HandshakePayloads ==
  { <<0, 0>> \o PASSPHRASE,                          \* the initiator's handshake
    <<1, 2>> \o PASSPHRASE,                          \* other reserved bytes
    <<0, 0, 117, 110, 105, 116, 114, 101, 88>>,      \* "unitreX"
    <<0, 0, 117, 110, 105, 116, 114, 101>>,          \* "unitre", a 12-byte packet
    <<119, 114, 111, 110, 103>>,                     \* "wrong", a 9-byte packet
    <<>> }

GetSerialPayloads == { <<0>> }

\* the mode byte: AP, STA, another value, none
InitWifiPayloads == { <<1>>, <<2>>, <<9>>, <<>> }

SsidData == { <<78, 101, 116>> }

PasswordData == { <<80, 97, 115, 115>> }

\* [chunkIndex, totalChunks, data...]
Chunks(data) ==
  { <<i, t>> \o d : i \in 1..MaxChunks, t \in 0..MaxChunks, d \in data }

SetCountryPayloads ==
  { <<1, 85, 83, 0>>,      \* [0x01, "US", 0x00]
    <<85, 83>>,            \* "US"
    <<1>>,
    <<>> }

\* validly framed requests, as the initiator's encoder frames them
FramedRequests ==
  {full_data(INSTR_HANDSHAKE, d) : d \in HandshakePayloads}
    \cup {full_data(INSTR_GET_SERIAL, d) : d \in GetSerialPayloads}
    \cup {full_data(INSTR_INIT_WIFI, d) : d \in InitWifiPayloads}
    \cup {full_data(INSTR_SET_SSID, d) : d \in Chunks(SsidData) \cup {<<>>}}
    \cup {full_data(INSTR_SET_PASSWORD, d) : d \in Chunks(PasswordData) \cup {<<>>}}
    \cup {full_data(INSTR_SET_COUNTRY, d) : d \in SetCountryPayloads}

\* other byte strings: unknown instructions, a length byte that differs from
\* the size, a response opcode, a wrong checksum, fewer than 4 bytes
OddPackets ==
  { full_data(7, <<1>>),
    WithChecksum(<<OPCODE_REQUEST, 99, INSTR_HANDSHAKE, 0, 0>> \o PASSPHRASE),
    WithChecksum(<<OPCODE_REQUEST, 200, INSTR_GET_SERIAL, 0>>),
    WithChecksum(<<OPCODE_REQUEST, 0, INSTR_SET_COUNTRY, 1, 85, 83, 0>>),
    WithChecksum(<<OPCODE_RESPONSE, 13, INSTR_HANDSHAKE, 0, 0>> \o PASSPHRASE),
    <<OPCODE_REQUEST, 13, INSTR_HANDSHAKE, 0, 0>> \o PASSPHRASE \o <<0>>,
    <<OPCODE_REQUEST, 7, INSTR_SET_SSID, 1, 1, 116, 0>>,
    WithChecksum(<<OPCODE_REQUEST, 3>>),
    <<OPCODE_REQUEST>> }

\* the values written to the write characteristic; <<>> is an empty write
WriteValues == {encryptData(p) : p \in FramedRequests \cup OddPackets} \cup {<<>>}

----------------------------------------------------------------------------
(* The codec as calls.  A call of encryptData or decryptData copies AES_IV  *)
(* into its local iv_copy and sets iv_offset to 0; the primitive encrypts   *)
(* the register at the start of every block and then overwrites it byte by  *)
(* byte with the ciphertext.                                                *)

RECURSIVE CfbRegister(_, _)
\* iv_copy after the primitive consumed the ciphertext from register iv
CfbRegister(iv, ciphertext) ==
  IF ciphertext = <<>> THEN iv
  ELSE IF Len(ciphertext) >= 16
  THEN CfbRegister(SubSeq(ciphertext, 1, 16), SubSeq(ciphertext, 17, Len(ciphertext)))
  ELSE ciphertext \o SubSeq(mbedtls_aes_crypt_ecb(iv), Len(ciphertext) + 1, 16)

\* the codec before its first call; iv_copy is the register the latest call
\* left, first tells that no call ran before the latest one, source holds
\* the input of the encryptData call whose output the latest call decrypted
NoCall ==
  [call |-> "none", input |-> <<>>, output |-> <<>>,
   iv_copy |-> <<0, 0, 0, 0, 0, 0, 0, 0, 0, 0, 0, 0, 0, 0, 0, 0>>,
   first |-> TRUE, source |-> <<>>]

----------------------------------------------------------------------------
(* The initiator (scanner): the serial collector and notifyCallback         *)

\* serialChunks, serialTotalChunks, serialComplete, serialNumber as declared.
\* serialChunks is a function from the chunk indices present to their data.
\* aborted: the firmware terminated inside the callback
Collector ==
  [serialChunks |-> <<>>,
   serialTotalChunks |-> 0,
   serialComplete |-> FALSE,
   serialNumber |-> <<>>,
   aborted |-> FALSE,
   hung |-> FALSE]

\* A faulty reconstruction loop that stops one index early (i < totalChunks)
ReassembleBelowTotal(chunks, totalChunks) ==
  LET RECURSIVE upTo(_)
      upTo(i) == IF i >= totalChunks THEN <<>>
                 ELSE (IF i \in DOMAIN chunks THEN NonZero(chunks[i]) ELSE <<>>)
                        \o upTo(i + 1)
  IN upTo(1)

\* the largest value of the uint8_t loop counter i
UINT8_MAX == 255

\* for (uint8_t i = 1; i <= totalChunks; i++): the non-zero bytes of the
\* chunks present, by ascending index, for totalChunks below UINT8_MAX
reassemble(chunks, totalChunks) ==
  LET RECURSIVE upTo(_)
      upTo(i) == IF i > totalChunks THEN <<>>
                 ELSE (IF i \in DOMAIN chunks THEN NonZero(chunks[i]) ELSE <<>>)
                        \o upTo(i + 1)
  IN upTo(1)

\* serialChunks[chunkIndex] = chunkData
StoreChunk(chunks, chunkIndex, chunkData) ==
  [i \in (DOMAIN chunks) \cup {chunkIndex} |->
     IF i = chunkIndex THEN chunkData ELSE chunks[i]]

\* the part of notifyCallback that follows the construction of chunkData.
\* With totalChunks = UINT8_MAX the test i <= totalChunks is true for every
\* value of the counter: the loop never ends and serialComplete = true is
\* never reached
collect(sc, chunkIndex, totalChunks, chunkData) ==
  IF Cardinality(DOMAIN StoreChunk(sc.serialChunks, chunkIndex, chunkData)) < totalChunks
  THEN [sc EXCEPT !.serialChunks = StoreChunk(sc.serialChunks, chunkIndex, chunkData),
                  !.serialTotalChunks = totalChunks]
  ELSE IF totalChunks = UINT8_MAX
  THEN [sc EXCEPT !.serialChunks = StoreChunk(sc.serialChunks, chunkIndex, chunkData),
                  !.serialTotalChunks = totalChunks,
                  !.serialNumber = <<>>,
                  !.hung = TRUE]
  ELSE [sc EXCEPT !.serialChunks = StoreChunk(sc.serialChunks, chunkIndex, chunkData),
                  !.serialTotalChunks = totalChunks,
                  !.serialNumber =
                     reassemble(StoreChunk(sc.serialChunks, chunkIndex, chunkData),
                                totalChunks),
                  !.serialComplete = TRUE]

\* what the constructor of chunkData can leave when the packet has 5 bytes:
\* its range [begin + 5, end - 1) is then not a valid range
UndefinedChunkData == { <<>>, <<0>>, <<88>> }

\* notifyCallback on the decrypted notification: the collectors it can leave.
\* A 5-byte GetSerial response passes the size test, its checksum byte is
\* read as totalChunks, and the constructor of chunkData has undefined
\* behaviour: the firmware terminates or goes on with some chunkData.
notifyCallback(sc, decrypted) ==
  IF Len(decrypted) < 5 \/ decrypted[1] # OPCODE_RESPONSE THEN {sc}
  ELSE IF ~validateChecksum(decrypted) THEN {sc}
  ELSE IF decrypted[3] # INSTR_GET_SERIAL THEN {sc}
  ELSE IF Len(decrypted) = 5
  THEN {[sc EXCEPT !.aborted = TRUE]}
         \cup {collect(sc, decrypted[4], decrypted[5], d) : d \in UndefinedChunkData}
  ELSE {collect(sc, decrypted[4], decrypted[5],
                SubSeq(decrypted, 6, Len(decrypted) - 1))}

----------------------------------------------------------------------------
(* The scanner's registry: the NVS namespace "unitree_scan", a map from    *)
(* keys to String values.  A BLE address is 6 bytes; text is bytes.        *)

\* one lowercase hexadecimal digit
HexDigit(d) == IF d < 10 THEN 48 + d ELSE 87 + d

\* BLEAddress::toString(): "%02x:%02x:%02x:%02x:%02x:%02x"
toString(address) ==
  <<HexDigit(address[1] \div 16), HexDigit(address[1] % 16), 58,
    HexDigit(address[2] \div 16), HexDigit(address[2] % 16), 58,
    HexDigit(address[3] \div 16), HexDigit(address[3] % 16), 58,
    HexDigit(address[4] \div 16), HexDigit(address[4] % 16), 58,
    HexDigit(address[5] \div 16), HexDigit(address[5] % 16), 58,
    HexDigit(address[6] \div 16), HexDigit(address[6] % 16)>>

\* key.replace(":", "")
sanitizeKey(mac) == SelectSeq(mac, LAMBDA c : c # 58)

\* A faulty lookup that knows no device
NeverScanned(prefs, macAddress) == FALSE

\* A faulty lookup by the address with its colons
IsKeyOfUnsanitized(prefs, macAddress) == macAddress \in DOMAIN prefs

\* preferences.isKey(key)
isDeviceScanned(prefs, macAddress) == sanitizeKey(macAddress) \in DOMAIN prefs

\* preferences.putString(key, value): the key now maps to value
putString(prefs, key, value) ==
  [k \in (DOMAIN prefs) \cup {key} |-> IF k = key THEN value ELSE prefs[k]]

RECURSIVE WithColons(_, _)
\* A faulty reconstruction that puts ':' after every character
ColonAfterEveryCharacter(macKey, i) ==
  IF i > Len(macKey) THEN <<>>
  ELSE (IF i > 1 THEN <<58>> ELSE <<>>) \o <<macKey[i]>>
         \o WithColons(macKey, i + 1)

\* for (i = 0; i < macKey.length(); i += 2): ':' before every pair but the
\* first; i is the 1-based position of the pair
WithColons(macKey, i) ==
  IF i > Len(macKey) THEN <<>>
  ELSE (IF i > 1 THEN <<58>> ELSE <<>>)
         \o SubSeq(macKey, i, IF i + 1 <= Len(macKey) THEN i + 1 ELSE Len(macKey))
         \o WithColons(macKey, i + 2)

\* one line of the listing: macAddress + "|" + value + "\n"
ListingLine(key, value) == WithColons(key, 1) \o <<124>> \o value \o <<10>>

RECURSIVE ListingIn(_, _)
\* the listing of the entries in the order the iterator yields them
ListingIn(prefs, order) ==
  IF order = <<>> THEN <<>>
  ELSE ListingLine(Head(order), prefs[Head(order)]) \o ListingIn(prefs, Tail(order))

\* the orders in which nvs_entry_next can yield the keys
EntryOrders(prefs) ==
  { order \in [1..Cardinality(DOMAIN prefs) -> DOMAIN prefs] :
      \A i, j \in 1..Cardinality(DOMAIN prefs) : order[i] = order[j] => i = j }

\* getAllDevicesFromNVS: the strings it can return
getAllDevicesFromNVS(prefs) == { ListingIn(prefs, order) : order \in EntryOrders(prefs) }

\* A faulty count that leaves out the first entry
CountAfterFirstEntry(prefs) ==
  IF DOMAIN prefs = {} THEN 0 ELSE (Cardinality(DOMAIN prefs) - 1) % 256

\* getDeviceCountFromNVS: uint8_t count
getDeviceCountFromNVS(prefs) == Cardinality(DOMAIN prefs) % 256

\* deviceName.startsWith(prefix)
startsWith(deviceName, prefix) ==
  Len(deviceName) >= Len(prefix) /\ SubSeq(deviceName, 1, Len(prefix)) = prefix

\* onResult: the name begins with "G1_", "Go2_", "B2_", "H1_" or "X1_"
isUnitree(deviceName) ==
  \/ startsWith(deviceName, <<71, 49, 95>>)
  \/ startsWith(deviceName, <<71, 111, 50, 95>>)
  \/ startsWith(deviceName, <<66, 50, 95>>)
  \/ startsWith(deviceName, <<72, 49, 95>>)
  \/ startsWith(deviceName, <<88, 49, 95>>)

\* the latest attempt (history): the peer, the transport operations
\* connectAndFetchSerial performed in order, what it returned, whether a
\* valid Handshake response was decoded during it, and, when it follows an
\* abandoned attempt for the same peer, the chunk indices that attempt held
NoAttempt ==
  [address |-> <<>>, transport |-> <<>>, returned |-> "none", handshakeDecoded |-> FALSE,
   earlierChunks |-> {}]

\* the latest direct call of a registry function (history): its arguments
\* and what it returned
NoRegistryCall ==
  [name |-> "none", macAddress |-> <<>>, serialNumber |-> <<>>,
   exists |-> FALSE, listing |-> <<>>, count |-> 0]

\* the scanner after setup() on an empty NVS namespace.  pc is where loop()
\* is: "loop", or inside connectAndFetchSerial at "handshake" (the delay
\* after the Handshake write), "wait" (the wait loop) or "check" (after it)
Scanner ==
  [preferences |-> <<>>,
   devicesScanned |-> 0,
   isConnecting |-> FALSE,
   doConnect |-> FALSE,
   pServerAddress |-> <<>>,
   scanning |-> TRUE,
   clientConnected |-> FALSE,
   pDeviceListChar |-> <<>>,
   pDeviceCountChar |-> 0,
   pc |-> "loop",
   waited |-> 0,
   attempt |-> NoAttempt,
   call |-> NoRegistryCall]

----------------------------------------------------------------------------
(* The responder as a state machine over the transport's callbacks         *)

Init ==
  /\ emulator = UniTreeEmulator
  /\ connected = FALSE
  /\ notified = <<>>
  /\ lastCallback = "setup"
  /\ lastPacket = <<>>
  /\ passphraseSeen = FALSE
  /\ priorSession = UniTreeEmulator
  /\ ret = 0
  /\ cipher = NoCall
  /\ scanner = Collector
  /\ arrivals = <<>>
  /\ initiator = Scanner
  /\ inFlight = <<>>

\* ServerCallbacks::onConnect
OnConnect ==
  /\ ~connected
  /\ connected' = TRUE
  /\ notified' = <<>>
  /\ lastCallback' = "onConnect"
  /\ lastPacket' = <<>>
  /\ passphraseSeen' = FALSE
  /\ ret' = 0
  /\ UNCHANGED <<emulator, priorSession, cipher, scanner, arrivals, initiator, inFlight>>

\* ServerCallbacks::onDisconnect
OnDisconnect ==
  /\ connected
  /\ emulator' = reset(emulator)
  /\ connected' = FALSE
  /\ notified' = <<>>
  /\ lastCallback' = "onDisconnect"
  /\ lastPacket' = <<>>
  /\ priorSession' = emulator
  /\ ret' = 0
  /\ UNCHANGED <<passphraseSeen, cipher, scanner, arrivals, initiator, inFlight>>

\* CharacteristicCallbacks::onWrite: an empty value is only logged, any other
\* value is decrypted and processed
OnWrite(value) ==
  /\ connected
  /\ LET decrypted == decryptData(value)
         r == IF Len(value) > 0
              THEN processPacket(emulator, decrypted)
              ELSE [em |-> emulator, notified |-> <<>>]
     IN /\ emulator' = r.em
        /\ notified' = r.notified
        /\ lastPacket' = decrypted
        /\ passphraseSeen' = (passphraseSeen \/ PassphraseHandshake(decrypted))
  /\ lastCallback' = "onWrite"
  /\ priorSession' = UniTreeEmulator
  /\ ret' = 0
  /\ UNCHANGED <<connected, cipher, scanner, arrivals, initiator, inFlight>>

Next ==
  \/ OnConnect
  \/ OnDisconnect
  \/ \E value \in WriteValues : OnWrite(value)

Spec == Init /\ [][Next]_vars

----------------------------------------------------------------------------
(* The responder when the chunks of a sequence carry different data        *)

\* "Ne", "t"
SsidChunkData == { <<78, 101>>, <<116>> }

\* "&", "p"
PasswordChunkData == { <<38>>, <<112>> }

\* chunk 1 or 2 of 2, in any order and any number of times
ChunksOfTwo(data) == { <<i, 2>> \o d : i \in 1..2, d \in data }

ReassemblyRequests ==
  { full_data(INSTR_HANDSHAKE, <<0, 0>> \o PASSPHRASE),
    full_data(INSTR_GET_SERIAL, <<0>>),
    full_data(INSTR_SET_COUNTRY, <<1, 85, 83, 0>>) }
    \cup { full_data(INSTR_SET_SSID, d) : d \in ChunksOfTwo(SsidChunkData) }
    \cup { full_data(INSTR_SET_PASSWORD, d) : d \in ChunksOfTwo(PasswordChunkData) }

ReassemblyValues == { encryptData(p) : p \in ReassemblyRequests }

ReassemblyNext ==
  \/ OnConnect
  \/ OnDisconnect
  \/ \E value \in ReassemblyValues : OnWrite(value)

ReassemblySpec == Init /\ [][ReassemblyNext]_vars

----------------------------------------------------------------------------
(* The responder when the cipher primitive can fail.  The primitive works  *)
(* block by block: when it returns an error it has written the blocks      *)
(* before the failing one, and output (len zero bytes at construction)     *)
(* keeps zeros from there on.                                               *)

\* a packet of 20 bytes whose first 16 are the frame followed by zeros, and
\* whose last 4 are not: whole, its checksum is wrong
Overlong(frame) ==
  frame \o [i \in 1..(16 - Len(frame)) |-> 0] \o <<222, 173, 190, 239>>

FaultRequests ==
  { full_data(INSTR_HANDSHAKE, <<0, 0>> \o PASSPHRASE),
    full_data(INSTR_GET_SERIAL, <<0>>),
    full_data(INSTR_SET_SSID, <<1, 2, 78, 101>>),
    Overlong(full_data(INSTR_INIT_WIFI, <<1>>)),
    Overlong(full_data(INSTR_SET_COUNTRY, <<1, 85, 83>>)) }

FaultValues == { encryptData(p) : p \in FaultRequests }

\* the numbers of bytes written when the primitive fails: whole blocks,
\* fewer than len
WrittenBeforeFailure(len) == { n \in 0..(len - 1) : n % 16 = 0 }

\* output after a failure that left written bytes decrypted
PartialOutput(decrypted, written) ==
  [i \in 1..Len(decrypted) |-> IF i <= written THEN decrypted[i] ELSE 0]

\* onWrite when mbedtls_aes_crypt_cfb128 returns ret != 0: decryptData
\* prints the error and returns output, and onWrite passes it to
\* processPacket
OnWriteCipherFailure(value, written) ==
  /\ connected
  /\ Len(value) > 0
  /\ LET decrypted == PartialOutput(decryptData(value), written)
         r == processPacket(emulator, decrypted)
     IN /\ emulator' = r.em
        /\ notified' = r.notified
        /\ lastPacket' = decrypted
        /\ passphraseSeen' = (passphraseSeen \/ PassphraseHandshake(decrypted))
  /\ lastCallback' = "onWrite"
  /\ priorSession' = UniTreeEmulator
  /\ ret' = -1
  /\ UNCHANGED <<connected, cipher, scanner, arrivals, initiator, inFlight>>

FaultNext ==
  \/ OnConnect
  \/ OnDisconnect
  \/ \E value \in FaultValues : OnWrite(value)
  \/ \E value \in FaultValues :
        \E written \in WrittenBeforeFailure(Len(value)) :
           OnWriteCipherFailure(value, written)

FaultSpec == Init /\ [][FaultNext]_vars

----------------------------------------------------------------------------
(* The codec on its own: calls of encryptData, decryptData, createResponse *)
(* and createPacket on byte strings up to the largest packet, one after    *)
(* another in any order                                                     *)

MaxShort == 3

\* every byte string of at most MaxShort bytes 0x00 and 0xFF
ShortInputs == UNION { [1..n -> {0, 255}] : n \in 0..MaxShort }

\* n bytes 37, 74, 111, ...
LongBytes(n) == SubSeq([i \in 1..n |-> (37 * i) % 256], 1, n)

\* one block, one block and a byte, two blocks and a byte, the largest
\* packet a uint8_t length byte describes
LongLengths == {16, 17, 33, 255}

\* [instruction, data...] as createResponse and createPacket take them; the
\* last two carry 251 and 252 data bytes
InstructionData ==
  { <<i>> \o d : i \in {INSTR_HANDSHAKE, INSTR_GET_SERIAL, 200}, d \in ShortInputs }
    \cup { <<INSTR_GET_SERIAL>> \o LongBytes(251), <<INSTR_GET_SERIAL>> \o LongBytes(252) }

\* the inputs of a first call
CodecInputs ==
  ShortInputs \cup { LongBytes(n) : n \in LongLengths } \cup InstructionData
    \cup FramedRequests

\* the inputs of a call that follows another
ChainInputs ==
  ShortInputs \cup { LongBytes(17), full_data(INSTR_HANDSHAKE, <<0, 0>> \o PASSPHRASE) }

CodecInit ==
  /\ emulator = UniTreeEmulator
  /\ connected = FALSE
  /\ notified = <<>>
  /\ lastCallback = "setup"
  /\ lastPacket = <<>>
  /\ passphraseSeen = FALSE
  /\ priorSession = UniTreeEmulator
  /\ ret = 0
  /\ cipher \in { [NoCall EXCEPT !.input = b] : b \in CodecInputs }
  /\ scanner = Collector
  /\ arrivals = <<>>
  /\ initiator = Scanner
  /\ inFlight = <<>>

\* the argument of the next call: the input drawn at the start, then any
\* chain input
CodecArgs == IF cipher.call = "none" THEN {cipher.input} ELSE ChainInputs

\* the call returned output; the register holds what the primitive left
\* after it went through the ciphertext from a copy of AES_IV
Called(call, input, output, source) ==
  /\ cipher' = [call |-> call, input |-> input, output |-> output,
                iv_copy |-> CfbRegister(AES_IV, IF call = "decryptData" THEN input
                                                ELSE output),
                first |-> (cipher.call = "none"), source |-> source]
  /\ UNCHANGED <<emulator, connected, notified, lastCallback, lastPacket,
                 passphraseSeen, priorSession, ret, scanner, arrivals, initiator,
                 inFlight>>

EncryptCall ==
  \E b \in CodecArgs : Called("encryptData", b, encryptData(b), <<>>)

\* decryptData on an input, or on what the encryptData call before it returned
DecryptCall ==
  \E c \in CodecArgs \cup (IF cipher.call = "encryptData" THEN {cipher.output} ELSE {}) :
     Called("decryptData", c, decryptData(c),
            IF cipher.call = "encryptData" /\ c = cipher.output
            THEN <<cipher.input>> ELSE <<>>)

CreateResponseCall ==
  \E b \in CodecArgs :
     b # <<>> /\ Called("createResponse", b, createResponse(Head(b), Tail(b)), <<>>)

CreatePacketCall ==
  \E b \in CodecArgs :
     b # <<>> /\ Called("createPacket", b, createPacket(Head(b), Tail(b)), <<>>)

CodecNext ==
  \/ EncryptCall
  \/ DecryptCall
  \/ CreateResponseCall
  \/ CreatePacketCall

CodecSpec == CodecInit /\ [][CodecNext]_vars

----------------------------------------------------------------------------
(* The scanner's serial collector: a fetch starts, notifications arrive    *)

MaxSerialChunks == 3

MaxArrivals == 3

\* the data of chunk i: two characters around a zero padding byte
SerialChunk(i) == <<64 + i, 0, 48 + i>>

\* GetSerial response chunk i of n
ChunkNotification(i, n) == createResponse(INSTR_GET_SERIAL, <<i, n>> \o SerialChunk(i))

\* what the notify characteristic can deliver: serial chunks, chunk 1 of 2
\* again with other data, a Handshake response, the 5-byte GetSerial failure
\* response, a chunk with a wrong checksum and a request
Notifications ==
  { ChunkNotification(i, n) : i \in 1..MaxSerialChunks, n \in 1..MaxSerialChunks }
    \cup { createResponse(INSTR_GET_SERIAL, <<1, 2, 90>>),
           createResponse(INSTR_HANDSHAKE, <<1>>),
           createResponse(INSTR_GET_SERIAL, <<0>>),
           encryptData(<<OPCODE_RESPONSE, 7, INSTR_GET_SERIAL, 1, 1, 65, 0>>),
           createPacket(INSTR_GET_SERIAL, <<1, 1, 65>>) }

\* auto decrypted = decryptData(pData, length), for each notification
Decrypted == [value \in Notifications |-> decryptData(value)]

\* chunk i of a serial number of UINT8_MAX chunks of one character
LongSerial ==
  [i \in 1..UINT8_MAX |->
     decryptData(createResponse(INSTR_GET_SERIAL, <<i, UINT8_MAX, 65 + (i % 26)>>))]

\* connectAndFetchSerial resets the collector before it connects
StartFetch ==
  /\ ~scanner.aborted
  /\ ~scanner.hung
  /\ arrivals # <<>>
  /\ scanner' = Collector
  /\ arrivals' = <<>>
  /\ UNCHANGED <<emulator, connected, notified, lastCallback, lastPacket,
                 passphraseSeen, priorSession, ret, cipher, initiator,
                 inFlight>>

\* the notification value arrives; arrivals keeps the decrypted
\* notifications since the collector was reset
NotifyCallback(value) ==
  /\ ~scanner.aborted
  /\ ~scanner.hung
  /\ Len(arrivals) < MaxArrivals
  /\ scanner' \in notifyCallback(scanner, Decrypted[value])
  /\ arrivals' = Append(arrivals, Decrypted[value])
  /\ UNCHANGED <<emulator, connected, notified, lastCallback, lastPacket,
                 passphraseSeen, priorSession, ret, cipher, initiator,
                 inFlight>>

\* the next chunk of the long serial number arrives, the earlier ones having
\* arrived in order
NotifyLongSerial ==
  /\ ~scanner.aborted
  /\ ~scanner.hung
  /\ Len(arrivals) < UINT8_MAX
  /\ arrivals = SubSeq(LongSerial, 1, Len(arrivals))
  /\ scanner' \in notifyCallback(scanner, LongSerial[Len(arrivals) + 1])
  /\ arrivals' = Append(arrivals, LongSerial[Len(arrivals) + 1])
  /\ UNCHANGED <<emulator, connected, notified, lastCallback, lastPacket,
                 passphraseSeen, priorSession, ret, cipher, initiator,
                 inFlight>>

ScannerNext ==
  \/ StartFetch
  \/ NotifyLongSerial
  \/ \E value \in Notifications : NotifyCallback(value)

ScannerSpec == Init /\ [][ScannerNext]_vars

----------------------------------------------------------------------------
(* The scanner firmware: the scan callback, loop() and                     *)
(* connectAndFetchSerial, with notifications arriving while it waits       *)

\* the wait loop's NOTIFICATION_TIMEOUT in steps of its delay
MaxWaitTicks == 2

\* notifications a peer sends during one attempt
MaxPeerArrivals == 2

\* advertisers: two robots, a device with another name, one without a name
Devices ==
  { [address |-> <<170, 187, 204, 221, 238, 1>>, name |-> <<71, 111, 50, 95, 49>>],  \* "Go2_1"
    [address |-> <<0, 17, 34, 5, 10, 255>>, name |-> <<71, 49, 95, 50>>],            \* "G1_2"
    [address |-> <<1, 2, 3, 4, 5, 6>>, name |-> <<84, 86>>],                         \* "TV"
    [address |-> <<6, 5, 4, 3, 2, 1>>, name |-> <<>>] }

\* what a connected peer can notify: the serial in one chunk, another serial
\* in one chunk, chunks 1 and 2 of 2, a Handshake response, the 5-byte
\* GetSerial failure response
PeerNotifications ==
  { ChunkNotification(1, 1),
    createResponse(INSTR_GET_SERIAL, <<1, 1, 90>>),
    ChunkNotification(1, 2),
    ChunkNotification(2, 2),
    createResponse(INSTR_HANDSHAKE, <<1>>),
    createResponse(INSTR_GET_SERIAL, <<0>>) }

\* auto decrypted = decryptData(pData, length), for each of them
PeerDecrypted == [value \in PeerNotifications |-> decryptData(value)]

\* the Handshake and GetSerial requests connectAndFetchSerial writes
handshakePacket == createPacket(INSTR_HANDSHAKE, <<0, 0>> \o PASSPHRASE)

serialPacket == createPacket(INSTR_GET_SERIAL, <<0>>)

\* saveDeviceData: the scanners it can leave (the listing pushed to the
\* dashboard characteristic depends on the iterator's order).  The uint32_t
\* devicesScanned counts the saves since setup() and stays far below 2^32
saveDeviceData(in, data) ==
  { [in EXCEPT !.preferences = putString(in.preferences, sanitizeKey(data.macAddress),
                                         data.serialNumber),
               !.devicesScanned = in.devicesScanned + 1,
               !.pDeviceListChar = deviceList,
               !.pDeviceCountChar =
                  getDeviceCountFromNVS(putString(in.preferences,
                                                  sanitizeKey(data.macAddress),
                                                  data.serialNumber))] :
      deviceList \in getAllDevicesFromNVS(putString(in.preferences,
                                                    sanitizeKey(data.macAddress),
                                                    data.serialNumber)) }

\* A faulty loop() that does not start the scan again
AfterAttemptWithoutScan(in, returned, operations) ==
  [in EXCEPT !.pServerAddress = <<>>,
             !.isConnecting = FALSE,
             !.clientConnected = FALSE,
             !.pc = "loop",
             !.waited = 0,
             !.attempt.returned = returned,
             !.attempt.transport = in.attempt.transport \o operations]

\* loop() after connectAndFetchSerial returned: the address is deleted,
\* isConnecting cleared and, after delay(2000), the scan restarted
AfterAttempt(in, returned, operations) ==
  [in EXCEPT !.pServerAddress = <<>>,
             !.isConnecting = FALSE,
             !.scanning = TRUE,
             !.clientConnected = FALSE,
             !.pc = "loop",
             !.waited = 0,
             !.attempt.returned = returned,
             !.attempt.transport = in.attempt.transport \o operations]

\* onResult of the scan callback: a Unitree name asks loop() to connect and
\* stops the scan
OnResult(advertisedDevice) ==
  /\ ~scanner.aborted
  /\ initiator.scanning
  /\ initiator.pc = "loop"
  /\ ~initiator.isConnecting
  /\ Len(advertisedDevice.name) # 0
  /\ isUnitree(advertisedDevice.name)
  /\ initiator' = [initiator EXCEPT !.pServerAddress = <<advertisedDevice.address>>,
                                    !.doConnect = TRUE,
                                    !.scanning = FALSE]
  /\ UNCHANGED <<emulator, connected, notified, lastCallback, lastPacket,
                 passphraseSeen, priorSession, ret, cipher, scanner, arrivals,
                 inFlight>>

\* onResult for a device without a name or with another name: nothing
OnResultIgnored(advertisedDevice) ==
  /\ ~scanner.aborted
  /\ initiator.scanning
  /\ initiator.pc = "loop"
  /\ (initiator.isConnecting \/ Len(advertisedDevice.name) = 0
        \/ ~isUnitree(advertisedDevice.name))
  /\ UNCHANGED vars

\* loop() takes doConnect; the attempt as it begins
Begun(in, sc) ==
  [in EXCEPT !.doConnect = FALSE,
             !.isConnecting = TRUE,
             !.attempt = [NoAttempt EXCEPT
                            !.address = in.pServerAddress[1],
                            !.earlierChunks =
                               IF /\ in.attempt.address = in.pServerAddress[1]
                                  /\ in.attempt.returned = "false"
                                  /\ in.attempt.transport # <<>>
                               THEN DOMAIN sc.serialChunks
                               ELSE {}]]

\* loop() and connectAndFetchSerial for a peer that isDeviceScanned knows:
\* return false at once
AttemptSkipped ==
  /\ ~scanner.aborted
  /\ initiator.pc = "loop"
  /\ initiator.doConnect
  /\ isDeviceScanned(initiator.preferences, toString(initiator.pServerAddress[1]))
  /\ initiator' = AfterAttempt(Begun(initiator, scanner), "false", <<>>)
  /\ UNCHANGED <<emulator, connected, notified, lastCallback, lastPacket,
                 passphraseSeen, priorSession, ret, cipher, scanner, arrivals,
                 inFlight>>

\* the ways connectAndFetchSerial gives up before it writes: connect fails;
\* the service is missing; a characteristic is missing
ConnectFailures ==
  { <<"connect">>,
    <<"connect", "getService", "disconnect">>,
    <<"connect", "getService", "getCharacteristic", "disconnect">> }

\* A faulty reset that keeps the chunks of the attempt before
ResetKeepingChunks(sc) == [Collector EXCEPT !.hung = sc.hung,
                                            !.serialChunks = sc.serialChunks]

\* serialChunks.clear(); serialTotalChunks = 0; serialComplete = false;
\* serialNumber = "" (a collector whose callback never returned stays so)
ResetCollector(sc) == [Collector EXCEPT !.hung = sc.hung]

\* loop() and connectAndFetchSerial for a new peer when the connection or
\* the discovery of the service fails: the collector is reset, return false
AttemptFailed(operations) ==
  /\ ~scanner.aborted
  /\ initiator.pc = "loop"
  /\ initiator.doConnect
  /\ ~isDeviceScanned(initiator.preferences, toString(initiator.pServerAddress[1]))
  /\ scanner' = ResetCollector(scanner)
  /\ arrivals' = <<>>
  /\ initiator' = AfterAttempt(Begun(initiator, scanner), "false", operations)
  /\ UNCHANGED <<emulator, connected, notified, lastCallback, lastPacket,
                 passphraseSeen, priorSession, ret, cipher, inFlight>>

\* loop() and connectAndFetchSerial for a new peer up to the delay(1000)
\* after the Handshake write
AttemptStarted ==
  /\ ~scanner.aborted
  /\ initiator.pc = "loop"
  /\ initiator.doConnect
  /\ ~isDeviceScanned(initiator.preferences, toString(initiator.pServerAddress[1]))
  /\ scanner' = ResetCollector(scanner)
  /\ arrivals' = <<>>
  /\ initiator' = [Begun(initiator, scanner) EXCEPT
                     !.clientConnected = TRUE,
                     !.pc = "handshake",
                     !.attempt.transport =
                        <<"connect", "getService", "getCharacteristic",
                          "registerForNotify", "writeHandshake">>]
  /\ UNCHANGED <<emulator, connected, notified, lastCallback, lastPacket,
                 passphraseSeen, priorSession, ret, cipher, inFlight>>

\* after delay(1000): the GetSerial request is written and the wait begins
SendGetSerial ==
  /\ ~scanner.aborted
  /\ initiator.pc = "handshake"
  /\ initiator' = [initiator EXCEPT
                     !.pc = "wait",
                     !.waited = 0,
                     !.attempt.transport = Append(@, "writeGetSerial")]
  /\ UNCHANGED <<emulator, connected, notified, lastCallback, lastPacket,
                 passphraseSeen, priorSession, ret, cipher, scanner, arrivals,
                 inFlight>>

\* one delay(100) of the wait loop
WaitTick ==
  /\ ~scanner.aborted
  /\ initiator.pc = "wait"
  /\ ~scanner.serialComplete
  /\ initiator.waited < MaxWaitTicks
  /\ initiator' = [initiator EXCEPT !.waited = @ + 1]
  /\ UNCHANGED <<emulator, connected, notified, lastCallback, lastPacket,
                 passphraseSeen, priorSession, ret, cipher, scanner, arrivals,
                 inFlight>>

\* the wait loop ends: serialComplete, or NOTIFICATION_TIMEOUT passed
WaitEnd ==
  /\ ~scanner.aborted
  /\ initiator.pc = "wait"
  /\ (scanner.serialComplete \/ initiator.waited >= MaxWaitTicks)
  /\ initiator' = [initiator EXCEPT !.pc = "check"]
  /\ UNCHANGED <<emulator, connected, notified, lastCallback, lastPacket,
                 passphraseSeen, priorSession, ret, cipher, scanner, arrivals,
                 inFlight>>

\* A faulty end of connectAndFetchSerial that saves whatever was collected
FinishSavingAnyway(in, sc) ==
  { AfterAttempt(saved, "true", <<"disconnect">>) :
      saved \in saveDeviceData(in, [macAddress |-> toString(in.attempt.address),
                                    serialNumber |-> sc.serialNumber]) }

\* connectAndFetchSerial after the wait loop: without serialComplete
\* disconnect and return false; with it save the record, disconnect and
\* return true
finish(in, sc) ==
  IF ~sc.serialComplete
  THEN { AfterAttempt(in, "false", <<"disconnect">>) }
  ELSE { AfterAttempt(saved, "true", <<"disconnect">>) :
           saved \in saveDeviceData(in, [macAddress |-> toString(in.attempt.address),
                                         serialNumber |-> sc.serialNumber]) }

Finish ==
  /\ ~scanner.aborted
  /\ initiator.pc = "check"
  /\ initiator' \in finish(initiator, scanner)
  /\ UNCHANGED <<emulator, connected, notified, lastCallback, lastPacket,
                 passphraseSeen, priorSession, ret, cipher, scanner, arrivals,
                 inFlight>>

\* the decrypted notification is a valid Handshake response
HandshakeResponse(decrypted) ==
  /\ Len(decrypted) >= 5
  /\ decrypted[1] = OPCODE_RESPONSE
  /\ validateChecksum(decrypted)
  /\ decrypted[3] = INSTR_HANDSHAKE

\* the connected peer notifies a value while connectAndFetchSerial sleeps
PeerNotifies(value) ==
  /\ ~scanner.aborted
  /\ ~scanner.hung
  /\ initiator.clientConnected
  /\ Len(arrivals) < MaxPeerArrivals
  /\ scanner' \in notifyCallback(scanner, PeerDecrypted[value])
  /\ arrivals' = Append(arrivals, PeerDecrypted[value])
  /\ initiator' = [initiator EXCEPT
                     !.attempt.handshakeDecoded =
                        (@ \/ HandshakeResponse(PeerDecrypted[value]))]
  /\ UNCHANGED <<emulator, connected, notified, lastCallback, lastPacket,
                 passphraseSeen, priorSession, ret, cipher, inFlight>>

\* A faulty setup that erases the namespace
SetupErasingNVS(in) ==
  { [Scanner EXCEPT !.call = in.call] }

\* a reset of the board and setup(): the globals are initialised again, the
\* NVS namespace is what it was, the dashboard characteristics are loaded
\* from it
setup(in) ==
  { [Scanner EXCEPT !.preferences = in.preferences,
                    !.pDeviceListChar = deviceList,
                    !.pDeviceCountChar = getDeviceCountFromNVS(in.preferences),
                    !.call = in.call] :
      deviceList \in getAllDevicesFromNVS(in.preferences) }

\* the board restarts, at any time
Reboot ==
  /\ initiator' \in setup(initiator)
  /\ scanner' = Collector
  /\ arrivals' = <<>>
  /\ UNCHANGED <<emulator, connected, notified, lastCallback, lastPacket,
                 passphraseSeen, priorSession, ret, cipher, inFlight>>

InitiatorNext ==
  \/ \E advertisedDevice \in Devices : OnResult(advertisedDevice)
  \/ \E advertisedDevice \in Devices : OnResultIgnored(advertisedDevice)
  \/ AttemptSkipped
  \/ \E operations \in ConnectFailures : AttemptFailed(operations)
  \/ AttemptStarted
  \/ SendGetSerial
  \/ WaitTick
  \/ WaitEnd
  \/ Finish
  \/ \E value \in PeerNotifications : PeerNotifies(value)
  \/ Reboot

InitiatorSpec == Init /\ [][InitiatorNext]_vars

\* connectAndFetchSerial is a running program: delay() returns, millis()
\* advances, and the statement after the wait loop is executed
FairInitiatorSpec ==
  /\ InitiatorSpec
  /\ WF_vars(SendGetSerial)
  /\ WF_vars(WaitTick)
  /\ WF_vars(WaitEnd)
  /\ WF_vars(Finish)

\* loop() runs: delay(1000) returns and a set doConnect is taken
LoopingInitiatorSpec ==
  /\ FairInitiatorSpec
  /\ WF_vars(AttemptSkipped \/ (\E operations \in ConnectFailures : AttemptFailed(operations))
               \/ AttemptStarted)

----------------------------------------------------------------------------
(* The scanner against the emulator.  A write with response has reached    *)
(* onWrite when writeValue returns; the notifications of the emulator      *)
(* reach notifyCallback in order, each before the wait would time out.     *)
(* Other clients use the emulator only while the scanner is scanning.      *)

\* the emulator board as the scan sees it
Responder == [address |-> <<36, 111, 40, 10, 11, 12>>, name |-> DEVICE_NAME]

\* what another client writes: Handshake, GetSerial, chunk 1 of 2 of an SSID
ForeignValues ==
  { handshakePacket, serialPacket, createPacket(INSTR_SET_SSID, <<1, 2, 78>>) }

ForeignConnect ==
  /\ initiator.scanning
  /\ OnConnect

ForeignWrite(value) ==
  /\ initiator.scanning
  /\ OnWrite(value)

ForeignDisconnect ==
  /\ initiator.scanning
  /\ OnDisconnect

\* the emulator advertises while no client is connected
ResponderDiscovered ==
  /\ ~connected
  /\ OnResult(Responder)

\* connectAndFetchSerial up to the delay(1000) after the Handshake write,
\* with onConnect and onWrite of the emulator
ResponderAttemptStarted ==
  /\ ~scanner.aborted
  /\ initiator.pc = "loop"
  /\ initiator.doConnect
  /\ ~isDeviceScanned(initiator.preferences, toString(initiator.pServerAddress[1]))
  /\ ~connected
  /\ scanner' = ResetCollector(scanner)
  /\ arrivals' = <<>>
  /\ initiator' = [Begun(initiator, scanner) EXCEPT
                     !.clientConnected = TRUE,
                     !.pc = "handshake",
                     !.attempt.transport =
                        <<"connect", "getService", "getCharacteristic",
                          "registerForNotify", "writeHandshake">>]
  /\ connected' = TRUE
  /\ LET decrypted == decryptData(handshakePacket)
         r == processPacket(emulator, decrypted)
     IN /\ emulator' = r.em
        /\ notified' = r.notified
        /\ inFlight' = r.notified
        /\ lastPacket' = decrypted
        /\ passphraseSeen' = PassphraseHandshake(decrypted)
  /\ lastCallback' = "onWrite"
  /\ priorSession' = UniTreeEmulator
  /\ ret' = 0
  /\ UNCHANGED cipher

\* the GetSerial write after delay(1000), with onWrite of the emulator
ResponderGetSerial ==
  /\ ~scanner.aborted
  /\ initiator.pc = "handshake"
  /\ connected
  /\ initiator' = [initiator EXCEPT
                     !.pc = "wait",
                     !.waited = 0,
                     !.attempt.transport = Append(@, "writeGetSerial")]
  /\ LET decrypted == decryptData(serialPacket)
         r == processPacket(emulator, decrypted)
     IN /\ emulator' = r.em
        /\ notified' = r.notified
        /\ inFlight' = inFlight \o r.notified
        /\ lastPacket' = decrypted
        /\ passphraseSeen' = (passphraseSeen \/ PassphraseHandshake(decrypted))
  /\ lastCallback' = "onWrite"
  /\ priorSession' = UniTreeEmulator
  /\ ret' = 0
  /\ UNCHANGED <<connected, cipher, scanner, arrivals>>

\* what handleHandshake and handleGetSerial can return
ResponderNotifications ==
  { createResponse(INSTR_HANDSHAKE, <<1>>),
    createResponse(INSTR_HANDSHAKE, <<0>>),
    SerialResponse,
    createResponse(INSTR_GET_SERIAL, <<0>>) }

\* auto decrypted = decryptData(pData, length), for each of them
ResponderDecrypted == [value \in ResponderNotifications |-> decryptData(value)]

\* the oldest notification on its way reaches notifyCallback
NotificationDelivered ==
  /\ ~scanner.aborted
  /\ ~scanner.hung
  /\ initiator.clientConnected
  /\ inFlight # <<>>
  /\ Head(inFlight) \in ResponderNotifications
  /\ scanner' \in notifyCallback(scanner, ResponderDecrypted[Head(inFlight)])
  /\ arrivals' = Append(arrivals, ResponderDecrypted[Head(inFlight)])
  /\ initiator' = [initiator EXCEPT
                     !.attempt.handshakeDecoded =
                        (@ \/ HandshakeResponse(ResponderDecrypted[Head(inFlight)]))]
  /\ inFlight' = Tail(inFlight)
  /\ UNCHANGED <<emulator, connected, notified, lastCallback, lastPacket,
                 passphraseSeen, priorSession, ret, cipher>>

\* the wait loop ends: serialComplete, or NOTIFICATION_TIMEOUT passed with
\* no notification on its way
ResponderWaitEnd ==
  /\ scanner.serialComplete \/ inFlight = <<>>
  /\ WaitEnd

\* the end of connectAndFetchSerial, with onDisconnect of the emulator
ResponderFinish ==
  /\ ~scanner.aborted
  /\ initiator.pc = "check"
  /\ connected
  /\ initiator' \in finish(initiator, scanner)
  /\ emulator' = reset(emulator)
  /\ connected' = FALSE
  /\ notified' = <<>>
  /\ inFlight' = <<>>
  /\ lastCallback' = "onDisconnect"
  /\ lastPacket' = <<>>
  /\ priorSession' = emulator
  /\ ret' = 0
  /\ UNCHANGED <<passphraseSeen, cipher, scanner, arrivals>>

EndToEndNext ==
  \/ ForeignConnect
  \/ \E value \in ForeignValues : ForeignWrite(value)
  \/ ForeignDisconnect
  \/ ResponderDiscovered
  \/ AttemptSkipped
  \/ ResponderAttemptStarted
  \/ ResponderGetSerial
  \/ NotificationDelivered
  \/ WaitTick
  \/ ResponderWaitEnd
  \/ ResponderFinish

\* both boards run: the steps of connectAndFetchSerial are taken and the
\* notifications are delivered
EndToEndSpec ==
  /\ Init
  /\ [][EndToEndNext]_vars
  /\ WF_vars(ResponderAttemptStarted)
  /\ WF_vars(ResponderGetSerial)
  /\ WF_vars(NotificationDelivered)
  /\ WF_vars(WaitTick)
  /\ WF_vars(ResponderWaitEnd)
  /\ WF_vars(ResponderFinish)

----------------------------------------------------------------------------
(* The registry functions on their own: calls of saveDeviceData,           *)
(* isDeviceScanned and getAllDevicesFromNVS in any order                   *)

MaxSaves == 3

\* identifiers of six two-character groups: addresses as toString prints
\* them, and one in capitals ("AA:BB:CC:DD:EE:FF")
RegistryMacs ==
  { toString(<<170, 187, 204, 221, 238, 1>>),
    toString(<<0, 9, 16, 154, 175, 255>>),
    <<65, 65, 58, 66, 66, 58, 67, 67, 58, 68, 68, 58, 69, 69, 58, 70, 70>> }

\* "S1", "S2"
RegistrySerials == { <<83, 49>>, <<83, 50>> }

SaveDeviceDataCall(macAddress, serialNumber) ==
  /\ initiator.devicesScanned < MaxSaves
  /\ \E saved \in saveDeviceData(initiator, [macAddress |-> macAddress,
                                            serialNumber |-> serialNumber]) :
        initiator' = [saved EXCEPT
                        !.call = [NoRegistryCall EXCEPT !.name = "saveDeviceData",
                                                        !.macAddress = macAddress,
                                                        !.serialNumber = serialNumber]]
  /\ UNCHANGED <<emulator, connected, notified, lastCallback, lastPacket,
                 passphraseSeen, priorSession, ret, cipher, scanner, arrivals,
                 inFlight>>

IsDeviceScannedCall(macAddress) ==
  /\ initiator' = [initiator EXCEPT
                     !.call = [NoRegistryCall EXCEPT
                                 !.name = "isDeviceScanned",
                                 !.macAddress = macAddress,
                                 !.exists = isDeviceScanned(initiator.preferences,
                                                            macAddress)]]
  /\ UNCHANGED <<emulator, connected, notified, lastCallback, lastPacket,
                 passphraseSeen, priorSession, ret, cipher, scanner, arrivals,
                 inFlight>>

GetAllDevicesFromNVSCall ==
  /\ \E result \in getAllDevicesFromNVS(initiator.preferences) :
        initiator' = [initiator EXCEPT
                        !.call = [NoRegistryCall EXCEPT !.name = "getAllDevicesFromNVS",
                                                        !.listing = result]]
  /\ UNCHANGED <<emulator, connected, notified, lastCallback, lastPacket,
                 passphraseSeen, priorSession, ret, cipher, scanner, arrivals,
                 inFlight>>

RegistryNext ==
  \/ \E macAddress \in RegistryMacs, serialNumber \in RegistrySerials :
        SaveDeviceDataCall(macAddress, serialNumber)
  \/ \E macAddress \in RegistryMacs : IsDeviceScannedCall(macAddress)
  \/ GetAllDevicesFromNVSCall

RegistrySpec == Init /\ [][RegistryNext]_vars

----------------------------------------------------------------------------
(* The dashboard's count and listing on namespaces of many records: the    *)
(* board starts on a namespace earlier runs filled, and the count and the  *)
(* listing are read                                                        *)

MaxRecords == 40

\* the key of the i-th robot recorded
RecordKey(i) == sanitizeKey(toString(<<2, 0, 0, 0, i \div 256, i % 256>>))

\* n records, each with the serial "S1"
NamespaceOf(n) == [key \in { RecordKey(i) : i \in 1..n } |-> <<83, 49>>]

\* up to MaxRecords records, and the numbers around the range of uint8_t
NamespaceSizes == (0..MaxRecords) \cup {255, 256}

RECURSIVE ListingBetween(_, _, _)
\* the listing when the iterator yields the records lo..hi in the order they
\* were recorded
ListingBetween(prefs, lo, hi) ==
  IF lo > hi THEN <<>>
  ELSE IF lo = hi THEN ListingLine(RecordKey(lo), prefs[RecordKey(lo)])
  ELSE ListingBetween(prefs, lo, (lo + hi) \div 2)
         \o ListingBetween(prefs, (lo + hi) \div 2 + 1, hi)

\* setup() on a namespace of n records
CountInit ==
  /\ emulator = UniTreeEmulator
  /\ connected = FALSE
  /\ notified = <<>>
  /\ lastCallback = "setup"
  /\ lastPacket = <<>>
  /\ passphraseSeen = FALSE
  /\ priorSession = UniTreeEmulator
  /\ ret = 0
  /\ cipher = NoCall
  /\ scanner = Collector
  /\ arrivals = <<>>
  /\ inFlight = <<>>
  /\ \E n \in NamespaceSizes :
        initiator = [Scanner EXCEPT
                       !.preferences = NamespaceOf(n),
                       !.pDeviceListChar = ListingBetween(NamespaceOf(n), 1, n),
                       !.pDeviceCountChar = getDeviceCountFromNVS(NamespaceOf(n))]

GetDeviceCountFromNVSCall ==
  /\ initiator' = [initiator EXCEPT
                     !.call = [NoRegistryCall EXCEPT
                                 !.name = "getDeviceCountFromNVS",
                                 !.count = getDeviceCountFromNVS(initiator.preferences)]]
  /\ UNCHANGED <<emulator, connected, notified, lastCallback, lastPacket,
                 passphraseSeen, priorSession, ret, cipher, scanner, arrivals, inFlight>>

GetAllDevicesInOrderCall ==
  /\ initiator' = [initiator EXCEPT
                     !.call = [NoRegistryCall EXCEPT
                                 !.name = "getAllDevicesFromNVS",
                                 !.listing =
                                    ListingBetween(initiator.preferences, 1,
                                                   Cardinality(DOMAIN initiator.preferences))]]
  /\ UNCHANGED <<emulator, connected, notified, lastCallback, lastPacket,
                 passphraseSeen, priorSession, ret, cipher, scanner, arrivals, inFlight>>

CountNext ==
  \/ GetDeviceCountFromNVSCall
  \/ GetAllDevicesInOrderCall

CountSpec == CountInit /\ [][CountNext]_vars

----------------------------------------------------------------------------
(* The scan callback and loop() statement by statement.  onResult runs in  *)
(* the task of the BLE stack, one call at a time and only while the scan   *)
(* runs; loop() runs in the Arduino task.  The two share isConnecting,     *)
(* doConnect and pServerAddress.  A BLEAddress made by new has an          *)
(* identity, 1, 2, ... in the order of allocation; nullptr is 0.           *)

\* the allocations new BLEAddress makes before the scan results end
MaxDiscoveries == 3

\* callback: the statement of onResult the BLE task is at ("idle": no call);
\* position: the statement of loop() the Arduino task is at;
\* heap: the live BLEAddress objects; addresses[i]: the address object i
\* holds; attempted: the arguments of the connectAndFetchSerial calls;
\* freed: the objects deleted; flagSetBy: the object of the call that last
\* set doConnect
Tasks ==
  [isConnecting |-> FALSE,
   doConnect |-> FALSE,
   pServerAddress |-> 0,
   scanning |-> TRUE,
   callback |-> "idle",
   advertised |-> <<>>,
   position |-> "test",
   heap |-> {},
   addresses |-> <<>>,
   attempted |-> <<>>,
   freed |-> {},
   flagSetBy |-> 0]

\* setup() has started the scan
DiscoveryInit ==
  /\ emulator = UniTreeEmulator
  /\ connected = FALSE
  /\ notified = <<>>
  /\ lastCallback = "setup"
  /\ lastPacket = <<>>
  /\ passphraseSeen = FALSE
  /\ priorSession = UniTreeEmulator
  /\ ret = 0
  /\ cipher = NoCall
  /\ scanner = Collector
  /\ arrivals = <<>>
  /\ inFlight = <<>>
  /\ initiator = Tasks

\* a step of one of the two tasks
TaskStep(after) ==
  /\ initiator' = after
  /\ UNCHANGED <<emulator, connected, notified, lastCallback, lastPacket,
                 passphraseSeen, priorSession, ret, cipher, scanner, arrivals, inFlight>>

\* the tests of onResult before it allocates: not connecting, a name, a
\* Unitree prefix
passes(in, advertisedDevice) ==
  /\ ~in.isConnecting
  /\ Len(advertisedDevice.name) # 0
  /\ isUnitree(advertisedDevice.name)

\* onResult returns at one of its tests
OnResultReturns(advertisedDevice) ==
  /\ initiator.scanning
  /\ initiator.callback = "idle"
  /\ ~passes(initiator, advertisedDevice)
  /\ TaskStep(initiator)

\* onResult passes its tests
OnResultPasses(advertisedDevice) ==
  /\ initiator.scanning
  /\ initiator.callback = "idle"
  /\ Len(initiator.addresses) < MaxDiscoveries
  /\ passes(initiator, advertisedDevice)
  /\ TaskStep([initiator EXCEPT !.callback = "new",
                                !.advertised = advertisedDevice.address])

\* pServerAddress = new BLEAddress(advertisedDevice.getAddress())
OnResultNew ==
  /\ initiator.callback = "new"
  /\ TaskStep([initiator EXCEPT
                 !.callback = "doConnect",
                 !.addresses = Append(@, initiator.advertised),
                 !.heap = @ \cup {Len(initiator.addresses) + 1},
                 !.pServerAddress = Len(initiator.addresses) + 1])

\* doConnect = true
OnResultDoConnect ==
  /\ initiator.callback = "doConnect"
  /\ TaskStep([initiator EXCEPT !.callback = "stop",
                                !.doConnect = TRUE,
                                !.flagSetBy = Len(initiator.addresses)])

\* advertisedDevice.getScan()->stop()
OnResultStop ==
  /\ initiator.callback = "stop"
  /\ TaskStep([initiator EXCEPT !.callback = "idle",
                                !.advertised = <<>>,
                                !.scanning = FALSE])

\* if (doConnect), and delay(1000) when it is false
LoopTest ==
  /\ initiator.position = "test"
  /\ TaskStep([initiator EXCEPT
                 !.position = IF initiator.doConnect THEN "doConnect" ELSE "test"])

\* doConnect = false
LoopDoConnect ==
  /\ initiator.position = "doConnect"
  /\ TaskStep([initiator EXCEPT !.position = "isConnecting", !.doConnect = FALSE])

\* isConnecting = true
LoopIsConnecting ==
  /\ initiator.position = "isConnecting"
  /\ TaskStep([initiator EXCEPT !.position = "connect", !.isConnecting = TRUE])

\* *pServerAddress: the address the object holds, "dangling" once deleted
Dereferenced(in) ==
  IF in.pServerAddress \in in.heap THEN in.addresses[in.pServerAddress]
  ELSE "dangling"

\* if (pServerAddress) connectAndFetchSerial(*pServerAddress, ...)
LoopConnect ==
  /\ initiator.position = "connect"
  /\ TaskStep(IF initiator.pServerAddress = 0
              THEN [initiator EXCEPT !.position = "connected"]
              ELSE [initiator EXCEPT
                      !.position = "delete",
                      !.attempted = Append(@, [object |-> initiator.pServerAddress,
                                               address |-> Dereferenced(initiator)])])

\* A faulty loop() that does not delete the address
KeepAddress(in) == in

\* delete pServerAddress
deleteAddress(in) ==
  [in EXCEPT !.heap = @ \ {in.pServerAddress},
             !.freed = @ \cup {in.pServerAddress}]

LoopDelete ==
  /\ initiator.position = "delete"
  /\ TaskStep([deleteAddress(initiator) EXCEPT !.position = "nullptr"])

\* pServerAddress = nullptr
LoopNullptr ==
  /\ initiator.position = "nullptr"
  /\ TaskStep([initiator EXCEPT !.position = "connected", !.pServerAddress = 0])

\* isConnecting = false
LoopConnected ==
  /\ initiator.position = "connected"
  /\ TaskStep([initiator EXCEPT !.position = "start", !.isConnecting = FALSE])

\* delay(2000); pBLEScan->start(0, false); delay(1000)
LoopStart ==
  /\ initiator.position = "start"
  /\ TaskStep([initiator EXCEPT !.position = "test", !.scanning = TRUE])

DiscoveryNext ==
  \/ \E advertisedDevice \in Devices : OnResultReturns(advertisedDevice)
  \/ \E advertisedDevice \in Devices : OnResultPasses(advertisedDevice)
  \/ OnResultNew
  \/ OnResultDoConnect
  \/ OnResultStop
  \/ LoopTest
  \/ LoopDoConnect
  \/ LoopIsConnecting
  \/ LoopConnect
  \/ LoopDelete
  \/ LoopNullptr
  \/ LoopConnected
  \/ LoopStart

DiscoverySpec == DiscoveryInit /\ [][DiscoveryNext]_vars

----------------------------------------------------------------------------
(* Properties of the responder                                             *)

\* the latest callback delivered a validly framed request of the instruction
Delivered(instruction) ==
  /\ lastCallback = "onWrite"
  /\ RequestOf(lastPacket, instruction)

\* the decrypted packet is a response of the instruction with the payload
ResponseOf(packet, instruction, payload) ==
  /\ Len(packet) = Len(payload) + 4
  /\ packet[1] = OPCODE_RESPONSE
  /\ packet[3] = instruction
  /\ Payload(packet) = payload

\* n holds exactly one value, and it decrypts to a response of the
\* instruction that carries the payload
Answers(n, instruction, payload) ==
  /\ Len(n) = 1
  /\ ResponseOf(decryptData(n[1]), instruction, payload)

\* a decrypted packet the framing checks reject
Malformed(packet) ==
  \/ Len(packet) < 4
  \/ packet[1] # OPCODE_REQUEST
  \/ ByteSum(packet) % 256 # 0

\* the chunks-received counter of a chunked instruction
ChunksReceived(em, instruction) ==
  IF instruction = INSTR_SET_SSID THEN em.ssidChunksReceived
  ELSE em.passwordChunksReceived

\* C1: a SetSsid (SetPassword) chunk that declares totalChunks = N > 1 and is
\* the k-th since the reassembly state was empty produces no notification
\* and is counted when k < N, and produces exactly one response with
\* payload [0x01] and empties the counter when k = N.
ChunkSuppression ==
  [][\A instruction \in {INSTR_SET_SSID, INSTR_SET_PASSWORD} :
       (Delivered(instruction)' /\ Len(Payload(lastPacket')) >= 2
          /\ Payload(lastPacket')[2] > 1) =>
         /\ ChunksReceived(emulator, instruction) + 1 < Payload(lastPacket')[2] =>
              /\ notified' = <<>>
              /\ ChunksReceived(emulator', instruction)
                   = ChunksReceived(emulator, instruction) + 1
         /\ ChunksReceived(emulator, instruction) + 1 = Payload(lastPacket')[2] =>
              /\ Answers(notified', instruction, <<1>>)
              /\ ChunksReceived(emulator', instruction) = 0
    ]_vars

\* C1 witness: the second of two SSID chunks "Net" was answered with success
\* and the SSID is both chunks
ChunkSuppressionWitness ==
  /\ Delivered(INSTR_SET_SSID)
  /\ Payload(lastPacket) = <<2, 2, 78, 101, 116>>
  /\ Answers(notified, INSTR_SET_SSID, <<1>>)
  /\ emulator.ssid = <<78, 101, 116, 78, 101, 116>>

\* C2 as stated: after a validly framed Handshake, authenticated is true
\* exactly when the payload after the 2 reserved bytes is the passphrase.
HandshakeDecidesAuthenticated ==
  Delivered(INSTR_HANDSHAKE) =>
    (emulator.authenticated <=> PassphraseHandshake(lastPacket))

GetSerialAnswered ==
  [][Delivered(INSTR_GET_SERIAL)' =>
       /\ emulator' = emulator
       /\ Answers(notified', INSTR_GET_SERIAL,
                  IF emulator.authenticated THEN <<1, 1>> \o SERIAL_NUMBER
                  ELSE <<0>>)
    ]_vars

\* C4 witness: an authenticated session was sent its serial
GetSerialAnsweredWitness ==
  /\ Delivered(INSTR_GET_SERIAL)
  /\ emulator.authenticated
  /\ Answers(notified, INSTR_GET_SERIAL, <<1, 1>> \o SERIAL_NUMBER)

\* C5: authenticated holds only while connected and after a passphrase
\* Handshake was processed on the current connection.
AuthenticatedOnlyByPassphrase ==
  emulator.authenticated => (connected /\ passphraseSeen)

\* C5 witness: an authenticated session that went on to another instruction
AuthenticatedOnlyByPassphraseWitness ==
  /\ emulator.authenticated
  /\ Delivered(INSTR_INIT_WIFI)

\* C6: when a connection has just been accepted the session has its initial
\* value.
FreshSessionOnConnect ==
  lastCallback = "onConnect" => emulator = UniTreeEmulator

\* C6 witness: a connection accepted after one that ended authenticated, with
\* a resolved configuration and both chunk sequences unfinished
FreshSessionOnConnectWitness ==
  /\ lastCallback = "onConnect"
  /\ priorSession.authenticated
  /\ priorSession.ssid # <<>>
  /\ priorSession.country # <<>>
  /\ priorSession.ssidBuffer # <<>>
  /\ priorSession.passwordChunksReceived > 0

\* C7: a decrypted packet shorter than 4 bytes, or with an opcode other than
\* 0x52, or with a byte sum that is not 0 modulo 256, produces no
\* notification and changes no session field.
MalformedDropped ==
  [][(lastCallback' = "onWrite" /\ lastPacket' # <<>> /\ Malformed(lastPacket')) =>
       (notified' = <<>> /\ emulator' = emulator)
    ]_vars

\* C7 witness: a passphrase Handshake with a wrong checksum left the session
\* unauthenticated and unanswered
MalformedDroppedWitness ==
  /\ lastCallback = "onWrite"
  /\ Len(lastPacket) = 13
  /\ lastPacket[1] = OPCODE_REQUEST
  /\ lastPacket[3] = INSTR_HANDSHAKE
  /\ SubSeq(lastPacket, 6, 12) = PASSPHRASE
  /\ ByteSum(lastPacket) % 256 # 0
  /\ ~emulator.authenticated
  /\ notified = <<>>

\* C8 as stated: every validly framed SetCountry is answered with exactly one
\* response with payload [0x01].
SetCountryAlwaysSucceeds ==
  Delivered(INSTR_SET_COUNTRY) => Answers(notified, INSTR_SET_COUNTRY, <<1>>)

\* C8 amended: every validly framed SetCountry is answered with exactly one
\* response, with payload [0x01] when the request has at least one payload
\* byte and [0x00] when its payload is empty.
SetCountryAnswered ==
  Delivered(INSTR_SET_COUNTRY) =>
    Answers(notified, INSTR_SET_COUNTRY,
            IF Payload(lastPacket) = <<>> THEN <<0>> ELSE <<1>>)

\* C8 witness: a SetCountry with a payload succeeded on an unauthenticated
\* session with a password
SetCountryAnsweredWitness ==
  /\ Delivered(INSTR_SET_COUNTRY)
  /\ Payload(lastPacket) # <<>>
  /\ ~emulator.authenticated
  /\ emulator.password # <<>>
  /\ Answers(notified, INSTR_SET_COUNTRY, <<1>>)

\* C9 as stated: after a validly framed SetCountry, country is the non-zero
\* payload bytes, in order.
CountryIsPayload ==
  Delivered(INSTR_SET_COUNTRY) => emulator.country = NonZero(Payload(lastPacket))

\* C9 amended: a validly framed SetCountry sets country to the non-zero bytes
\* of the payload after its first byte, in order; with an empty payload it
\* leaves country as it was.
CountryIsPayloadTail ==
  [][Delivered(INSTR_SET_COUNTRY)' =>
       emulator'.country = IF Payload(lastPacket') = <<>> THEN emulator.country
                           ELSE NonZero(Tail(Payload(lastPacket')))
    ]_vars

\* C9 witness: the payload "US" resolved the country "S"
CountryIsPayloadTailWitness ==
  /\ Delivered(INSTR_SET_COUNTRY)
  /\ Payload(lastPacket) = <<85, 83>>
  /\ emulator.country = <<83>>

\* C10: a validly framed SetCountry changes no session field other than
\* country.
SetCountryFrame ==
  [][Delivered(INSTR_SET_COUNTRY)' =>
       emulator' = [emulator EXCEPT !.country = emulator'.country]
    ]_vars

\* C10 witness: SetCountry after the SSID resolved "Net" and the password
\* "Pass" left both, with the country "US"
SetCountryFrameWitness ==
  /\ Delivered(INSTR_SET_COUNTRY)
  /\ emulator.ssid = <<78, 101, 116>>
  /\ emulator.password = <<80, 97, 115, 115>>
  /\ emulator.country = <<85, 83>>

\* C12: a validly framed InitWifi request, whatever its mode byte, is
\* answered with exactly one response of payload [0x01] and leaves every
\* session field as it was.
InitWifiAlwaysSucceeds ==
  [][Delivered(INSTR_INIT_WIFI)' =>
       /\ Answers(notified', INSTR_INIT_WIFI, <<1>>)
       /\ emulator' = emulator
    ]_vars

\* C12 witness: InitWifi with mode 0x09 arrived in the middle of an SSID
\* reassembly of an authenticated session and was answered with success
InitWifiAlwaysSucceedsWitness ==
  /\ Delivered(INSTR_INIT_WIFI)
  /\ Payload(lastPacket) = <<9>>
  /\ Answers(notified, INSTR_INIT_WIFI, <<1>>)
  /\ emulator.authenticated
  /\ emulator.ssidChunksReceived = 1

\* the session with the authenticated flag inverted
OtherAuthentication(em) == [em EXCEPT !.authenticated = ~em.authenticated]

\* C13: a validly framed InitWifi, SetSsid, SetPassword or SetCountry request
\* is processed as it would be from the session with the other value of
\* authenticated (same notification, same session update, the flag itself
\* untouched), wherever it comes relative to Handshake; a GetSerial request
\* is answered differently.
AuthenticationIndependent ==
  [][(lastCallback' = "onWrite" /\ ValidRequest(lastPacket')) =>
       /\ lastPacket'[3] \in {INSTR_INIT_WIFI, INSTR_SET_SSID, INSTR_SET_PASSWORD,
                               INSTR_SET_COUNTRY} =>
            /\ emulator'.authenticated = emulator.authenticated
            /\ processPacket(OtherAuthentication(emulator), lastPacket')
                 = [em |-> OtherAuthentication(emulator'), notified |-> notified']
       /\ lastPacket'[3] = INSTR_GET_SERIAL =>
            processPacket(OtherAuthentication(emulator), lastPacket').notified # notified'
    ]_vars

\* C13 witness: a session that never saw the passphrase and is not
\* authenticated has resolved SSID and password and had SetCountry answered
\* with success
AuthenticationIndependentWitness ==
  /\ Delivered(INSTR_SET_COUNTRY)
  /\ Answers(notified, INSTR_SET_COUNTRY, <<1>>)
  /\ ~passphraseSeen
  /\ ~emulator.authenticated
  /\ emulator.ssid # <<>>
  /\ emulator.password # <<>>
  /\ emulator.country = <<85, 83>>

\* the packet with its length byte set to its size and its checksum redone
WithMatchingLength(packet) ==
  WithChecksum(<<packet[1], Len(packet) % 256>> \o SubSeq(packet, 3, Len(packet) - 1))

\* the step did what the handler's result r says, which is also the
\* result twin of the packet with the matching length byte
DispatchedAs(r, twin) ==
  /\ emulator' = r.em
  /\ notified' = IF r.response = <<>> THEN <<>> ELSE <<r.response>>
  /\ twin = [em |-> emulator', notified |-> notified']

\* C14: a request of at least 4 bytes with opcode 0x52 and a valid checksum
\* whose length byte differs from its size is dispatched to the handler of
\* its instruction byte, with the result the same packet has when its length
\* byte matches.
LengthMismatchDispatched ==
  [][(lastCallback' = "onWrite" /\ ValidRequest(lastPacket')
        /\ lastPacket'[2] # Len(lastPacket')) =>
       DispatchedAs(dispatch(emulator, lastPacket'),
                    processPacket(emulator, WithMatchingLength(lastPacket')))
    ]_vars

\* C14 witness: the passphrase Handshake with length byte 99 in 13 bytes
\* authenticated the session and was answered with success
LengthMismatchDispatchedWitness ==
  /\ Delivered(INSTR_HANDSHAKE)
  /\ lastPacket[2] = 99
  /\ Len(lastPacket) = 13
  /\ emulator.authenticated
  /\ Answers(notified, INSTR_HANDSHAKE, <<1>>)

\* the data bytes of a chunk: the bytes after the two header bytes and
\* before the checksum
ChunkData(packet) == SubSeq(packet, 6, Len(packet) - 1)

\* the session without what SetPassword data bytes determine
WithoutPassword(em) == [em EXCEPT !.password = <<>>, !.passwordBuffer = <<>>]

\* what a peer observes of a result of processPacket, and the session it
\* leaves apart from the password data
Observable(r) == [em |-> WithoutPassword(r.em), notified |-> r.notified]

\* the packet with other data bytes d when it is a SetPassword chunk (same
\* chunkIndex and totalChunks), the packet itself otherwise
WithPasswordData(packet, d) ==
  IF packet[3] = INSTR_SET_PASSWORD /\ Len(packet) >= 6
  THEN full_data(INSTR_SET_PASSWORD, <<packet[4], packet[5]>> \o d)
  ELSE packet

\* the password data a session that got other SetPassword data bytes can hold
OtherPasswordBuffers == {<<>>} \cup PasswordChunkData

OtherPasswords == { <<>>, <<38, 38>> }

\* the data bytes the packet could carry instead: any, for a SetPassword
\* chunk
OtherData(packet) ==
  IF packet[3] = INSTR_SET_PASSWORD /\ Len(packet) >= 6 THEN PasswordChunkData
  ELSE {<<>>}

\* C11: a session that differs from this one only in the password data it
\* holds, given the same packet (with any other data bytes when the packet is
\* a SetPassword chunk), notifies the same values and leaves the same session
\* apart from the password data; and the chunk that resolves the password is
\* answered with [0x01] and writes password, passwordBuffer and
\* passwordChunksReceived only, whether or not the scan flags the password.
PasswordDataUnobservable ==
  [][(lastCallback' = "onWrite" /\ ValidRequest(lastPacket')) =>
       /\ \A buffer \in OtherPasswordBuffers, password \in OtherPasswords,
             d \in OtherData(lastPacket') :
             Observable(processPacket([emulator EXCEPT !.password = password,
                                                       !.passwordBuffer = buffer],
                                      WithPasswordData(lastPacket', d)))
               = [em |-> WithoutPassword(emulator'), notified |-> notified']
       /\ (lastPacket'[3] = INSTR_SET_PASSWORD /\ Len(lastPacket') >= 5
             /\ emulator.passwordChunksReceived + 1 >= lastPacket'[5]) =>
            /\ Answers(notified', INSTR_SET_PASSWORD, <<1>>)
            /\ emulator' = [emulator EXCEPT
                              !.password = emulator.passwordBuffer \o ChunkData(lastPacket'),
                              !.passwordBuffer = <<>>,
                              !.passwordChunksReceived = 0]
    ]_vars

\* C11 witness: the chunks "&" and "&" resolved the password "&&", which the
\* scan flags, and the response is success with SSID and country in place
PasswordDataUnobservableWitness ==
  /\ Delivered(INSTR_SET_PASSWORD)
  /\ emulator.password = <<38, 38>>
  /\ InjectionDetected(emulator.password)
  /\ Answers(notified, INSTR_SET_PASSWORD, <<1>>)
  /\ emulator.ssid = <<78, 101, 116>>
  /\ emulator.country = <<85, 83>>

\* the reassembly buffer of a chunked instruction
ChunkBuffer(em, instruction) ==
  IF instruction = INSTR_SET_SSID THEN em.ssidBuffer ELSE em.passwordBuffer

\* the resolved string of a chunked instruction
Resolved(em, instruction) ==
  IF instruction = INSTR_SET_SSID THEN em.ssid ELSE em.password

\* C19: every SetSsid (SetPassword) chunk appends its data bytes to the
\* buffer, whatever its chunkIndex; the chunk that completes the sequence
\* resolves the string to the buffer so extended, which is the data of the
\* chunks since the buffer was last cleared in arrival order, and clears the
\* buffer.
ArrivalOrderReassembly ==
  [][\A instruction \in {INSTR_SET_SSID, INSTR_SET_PASSWORD} :
       (Delivered(instruction)' /\ Len(lastPacket') >= 5) =>
         IF ChunksReceived(emulator, instruction) + 1 >= lastPacket'[5]
         THEN /\ Resolved(emulator', instruction)
                   = ChunkBuffer(emulator, instruction) \o ChunkData(lastPacket')
              /\ ChunkBuffer(emulator', instruction) = <<>>
         ELSE /\ ChunkBuffer(emulator', instruction)
                   = ChunkBuffer(emulator, instruction) \o ChunkData(lastPacket')
              /\ Resolved(emulator', instruction) = Resolved(emulator, instruction)
    ]_vars

\* C19 witness: chunk 2 ("t") arrived before chunk 1 ("Ne") and the SSID
\* resolved to "tNe", not to "Net"
ArrivalOrderReassemblyWitness ==
  /\ Delivered(INSTR_SET_SSID)
  /\ Payload(lastPacket) = <<1, 2, 78, 101>>
  /\ Answers(notified, INSTR_SET_SSID, <<1>>)
  /\ emulator.ssid = <<116, 78, 101>>

\* C15: when the cipher primitive returns a non-zero result code for an
\* inbound write, no handler runs: no session field changes and nothing is
\* notified.
CipherFailureDropsPacket ==
  [][ret' # 0 => (emulator' = emulator /\ notified' = <<>>)]_vars

\* C21: when a SetSsid (SetPassword) chunk completes the sequence, the
\* number of chunks whose data is in the resolved string, the chunks counted
\* since the buffer was last empty and this one, is the totalChunks the
\* completing chunk declares.
CompletionCountsDeclared ==
  [][\A instruction \in {INSTR_SET_SSID, INSTR_SET_PASSWORD} :
       (Delivered(instruction)' /\ Len(lastPacket') >= 5
          /\ Answers(notified', instruction, <<1>>)) =>
         ChunksReceived(emulator, instruction) + 1 = lastPacket'[5]
    ]_vars

\* C33: while chunks of an SSID (password) sequence have been received and
\* the sequence is not complete, ssidTotalChunks (passwordTotalChunks)
\* holds the total the chunks declared, which is greater than the number
\* received.
TotalChunksTracked ==
  /\ emulator.ssidChunksReceived > 0 =>
       emulator.ssidTotalChunks > emulator.ssidChunksReceived
  /\ emulator.passwordChunksReceived > 0 =>
       emulator.passwordTotalChunks > emulator.passwordChunksReceived

\* the SSID sequence "Ne", "t" and the password sequence "&", "p", each of
\* two chunks
SsidSequence ==
  << full_data(INSTR_SET_SSID, <<1, 2, 78, 101>>),
     full_data(INSTR_SET_SSID, <<2, 2, 116>>) >>

PasswordSequence ==
  << full_data(INSTR_SET_PASSWORD, <<1, 2, 38>>),
     full_data(INSTR_SET_PASSWORD, <<2, 2, 112>>) >>

\* the orders of the four chunks that keep the order of each sequence
Interleavings ==
  LET s == SsidSequence
      p == PasswordSequence
  IN { <<s[1], s[2], p[1], p[2]>>, <<s[1], p[1], s[2], p[2]>>,
       <<s[1], p[1], p[2], s[2]>>, <<p[1], s[1], s[2], p[2]>>,
       <<p[1], s[1], p[2], s[2]>>, <<p[1], p[2], s[1], s[2]>> }

RECURSIVE Processed(_, _)
\* the session after processPacket of each of the packets in turn
Processed(em, packets) ==
  IF packets = <<>> THEN em
  ELSE Processed(processPacket(em, Head(packets)).em, Tail(packets))

\* the fields of the SSID reassembly, and those of the password reassembly
SsidState(em) == <<em.ssidBuffer, em.ssidChunksReceived, em.ssid>>

PasswordState(em) == <<em.passwordBuffer, em.passwordChunksReceived, em.password>>

\* C36: a SetSsid packet changes none of passwordBuffer,
\* passwordChunksReceived and password, a SetPassword packet none of
\* ssidBuffer, ssidChunksReceived and ssid, and from every session the
\* chunks of an SSID sequence interleaved in any way with the chunks of a
\* password sequence resolve the two strings that the SSID sequence followed
\* by the password sequence resolves.
ReassemblyStatesIndependent ==
  /\ [][/\ Delivered(INSTR_SET_SSID)' => PasswordState(emulator') = PasswordState(emulator)
        /\ Delivered(INSTR_SET_PASSWORD)' => SsidState(emulator') = SsidState(emulator)
       ]_vars
  /\ [](\A order \in Interleavings :
          LET interleaved == Processed(emulator, order)
              sequential == Processed(emulator, SsidSequence \o PasswordSequence)
          IN /\ interleaved.ssid = sequential.ssid
             /\ interleaved.password = sequential.password)

\* C36 witness: the SetSsid chunk that resolved "Net" arrived after the
\* first chunk of a password sequence and left that chunk buffered
ReassemblyStatesIndependentWitness ==
  /\ Delivered(INSTR_SET_SSID)
  /\ emulator.ssid = <<78, 101, 116>>
  /\ emulator.ssidChunksReceived = 0
  /\ emulator.passwordBuffer = <<38>>
  /\ emulator.passwordChunksReceived = 1
  /\ emulator.password = <<>>

\* the instructions the switch of processPacket has a case for
KnownInstructions ==
  {INSTR_HANDSHAKE, INSTR_GET_SERIAL, INSTR_INIT_WIFI, INSTR_SET_SSID,
   INSTR_SET_PASSWORD, INSTR_SET_COUNTRY}

\* a validly framed request whose instruction has no case
UnknownRequest(packet) == ValidRequest(packet) /\ packet[3] \notin KnownInstructions

\* the step notified nothing and left the session as it was
Dropped == notified' = <<>> /\ emulator' = emulator

\* the responses of the handlers, decrypted once
HandlerResponses ==
  LET values == { createResponse(i, status) : i \in KnownInstructions,
                                              status \in {<<0>>, <<1>>} }
                  \cup {SerialResponse}
  IN [value \in values |-> decryptData(value)]

\* the one notified value decrypted, <<>> when the step notified nothing
Notified(n) ==
  IF Len(n) # 1 THEN <<>>
  ELSE IF n[1] \in DOMAIN HandlerResponses THEN HandlerResponses[n[1]]
  ELSE decryptData(n[1])

\* the step notified exactly one response of the packet's instruction whose
\* payload is the failure code [0x00]
CodedResponse(response) ==
  /\ ValidRequest(lastPacket')
  /\ response # <<>>
  /\ ResponseOf(response, lastPacket'[3], <<0>>)

\* the step is the work of the handler of the packet's instruction: one
\* response of the instruction whose first payload byte is 0x01, or a
\* buffered chunk of SetSsid or SetPassword that is not answered
HandledInstruction(response) ==
  /\ ValidRequest(lastPacket')
  /\ lastPacket'[3] \in KnownInstructions
  /\ \/ /\ response # <<>>
        /\ response[1] = OPCODE_RESPONSE
        /\ response[3] = lastPacket'[3]
        /\ Payload(response)[1] = 1
     \/ /\ notified' = <<>>
        /\ lastPacket'[3] \in {INSTR_SET_SSID, INSTR_SET_PASSWORD}
        /\ emulator' # emulator

\* C37: a validly framed request whose instruction byte is outside
\* 0x01..0x06 produces no notification and changes no session field; every
\* written value ends in exactly one of: dropped with no state change (the
\* malformed packets and the unknown instructions, and only they), a
\* failure-coded response, a handled instruction.
UnknownInstructionDropped ==
  [][lastCallback' = "onWrite" =>
       LET response == Notified(notified')
           coded == CodedResponse(response)
           handled == HandledInstruction(response)
       IN /\ (lastPacket' # <<>> /\ UnknownRequest(lastPacket')) => Dropped
          /\ Dropped <=> (Malformed(lastPacket') \/ UnknownRequest(lastPacket'))
          /\ Len(notified') <= 1
          /\ Dropped \/ coded \/ handled
          /\ ~(Dropped /\ coded)
          /\ ~(Dropped /\ handled)
          /\ ~(coded /\ handled)
    ]_vars

\* C37 witness: a request of instruction 0x07 with a valid checksum was
\* written to an authenticated session that holds buffered SSID chunks, and
\* nothing was notified
UnknownInstructionDroppedWitness ==
  /\ lastCallback = "onWrite"
  /\ ValidRequest(lastPacket)
  /\ lastPacket[3] = 7
  /\ notified = <<>>
  /\ emulator.authenticated
  /\ emulator.ssidChunksReceived = 1
  /\ emulator.ssidBuffer # <<>>

----------------------------------------------------------------------------
(* Properties of the scanner's registry                                    *)

\* C22: saveDeviceData for an identifier that has a record leaves the
\* stored serial as it was, and isDeviceScanned is true for an identifier
\* that was saved.
InsertKeepsFirstSerial ==
  [][/\ (initiator'.call.name = "saveDeviceData"
           /\ sanitizeKey(initiator'.call.macAddress) \in DOMAIN initiator.preferences) =>
          initiator'.preferences[sanitizeKey(initiator'.call.macAddress)]
            = initiator.preferences[sanitizeKey(initiator'.call.macAddress)]
     /\ (initiator'.call.name = "isDeviceScanned"
           /\ sanitizeKey(initiator'.call.macAddress) \in DOMAIN initiator.preferences) =>
          initiator'.call.exists
    ]_vars

\* the step in which loop() takes the discovered peer and
\* connectAndFetchSerial begins
AttemptBegins ==
  /\ initiator.pc = "loop"
  /\ initiator.doConnect
  /\ ~initiator'.doConnect
  /\ initiator'.attempt.address = initiator.pServerAddress[1]

\* C23: an attempt for a peer whose sanitized address is a key of the
\* namespace ends in the step it begins, returns false and performs no
\* transport operation: no connect, no Handshake write, no GetSerial write.
KnownPeerNotContacted ==
  [][(AttemptBegins
        /\ sanitizeKey(toString(initiator.pServerAddress[1]))
             \in DOMAIN initiator.preferences) =>
       /\ initiator'.attempt.transport = <<>>
       /\ initiator'.attempt.returned = "false"
       /\ ~initiator'.clientConnected
       /\ initiator'.pc = "loop"
    ]_vars

\* C23 witness: the latest attempt was for a recorded peer and returned
\* false without a transport operation
KnownPeerNotContactedWitness ==
  /\ initiator.attempt.address # <<>>
  /\ sanitizeKey(toString(initiator.attempt.address)) \in DOMAIN initiator.preferences
  /\ initiator.attempt.returned = "false"
  /\ initiator.attempt.transport = <<>>

\* C24: no step of the scan loop, the attempts, the notifications or a
\* reboot removes a key of the namespace or changes the serial it maps to.
RegistryMappingStable ==
  [][\A key \in DOMAIN initiator.preferences :
        /\ key \in DOMAIN initiator'.preferences
        /\ initiator'.preferences[key] = initiator.preferences[key]
    ]_vars

\* C24 witness: both robots are recorded, with the serials "A1" and "Z", and
\* the one recorded as "A1" was discovered again and its attempt returned
\* false
RegistryMappingStableWitness ==
  /\ DOMAIN initiator.preferences
       = { sanitizeKey(toString(device.address)) :
             device \in { d \in Devices : isUnitree(d.name) } }
  /\ { initiator.preferences[key] : key \in DOMAIN initiator.preferences }
       = { <<65, 49>>, <<90>> }
  /\ initiator.attempt.address # <<>>
  /\ initiator.preferences[sanitizeKey(toString(initiator.attempt.address))] = <<65, 49>>
  /\ initiator.attempt.returned = "false"
  /\ initiator.attempt.transport = <<>>

\* the operations of an attempt that writes GetSerial once and disconnects
TimedOutTransport ==
  <<"connect", "getService", "getCharacteristic", "registerForNotify",
    "writeHandshake", "writeGetSerial", "disconnect">>

\* C25: when the wait loop has ended and serialComplete is false,
\* connectAndFetchSerial disconnects the client and returns false, the
\* namespace is what it was and GetSerial was written once; and a wait that
\* has begun ends, the scanner returning to loop() (unless the notify
\* callback crashed the board).
TimeoutEndsAttempt ==
  /\ [][(/\ initiator.pc = "check"
         /\ ~scanner.serialComplete
         /\ initiator'.pc = "loop"
         /\ initiator'.attempt.address = initiator.attempt.address) =>
          /\ initiator'.attempt.returned = "false"
          /\ initiator'.attempt.transport = TimedOutTransport
          /\ ~initiator'.clientConnected
          /\ ~initiator'.isConnecting
          /\ initiator'.preferences = initiator.preferences
          /\ initiator'.devicesScanned = initiator.devicesScanned
       ]_vars
  /\ (initiator.pc \in {"handshake", "wait", "check"})
       ~> (initiator.pc = "loop" \/ scanner.aborted)

\* C25 witness: an attempt that wrote GetSerial returned false after the
\* wait, and the peer has no record
TimeoutEndsAttemptWitness ==
  /\ initiator.pc = "loop"
  /\ initiator.attempt.returned = "false"
  /\ initiator.attempt.transport = TimedOutTransport
  /\ sanitizeKey(toString(initiator.attempt.address)) \notin DOMAIN initiator.preferences
  /\ ~scanner.serialComplete

\* every chunk the collector holds is the data of a notification that
\* arrived since the reset (or what the undefined construction left for a
\* 5-byte one)
ChunksArrivedSinceReset ==
  \A i \in DOMAIN scanner.serialChunks :
     \E k \in 1..Len(arrivals) :
        /\ Len(arrivals[k]) >= 5
        /\ arrivals[k][4] = i
        /\ \/ scanner.serialChunks[i] = SubSeq(arrivals[k], 6, Len(arrivals[k]) - 1)
           \/ Len(arrivals[k]) = 5 /\ scanner.serialChunks[i] \in UndefinedChunkData

\* C27: while the latest attempt is one that was abandoned after a transport
\* operation, its peer has no record; an attempt that begins for a peer
\* without a record begins with an empty collector; the chunks of the
\* collector all arrived since that reset; and the serial an attempt stores
\* is the collector's.
AbandonedAttemptLeavesNothing ==
  /\ []((initiator.attempt.returned = "false" /\ initiator.attempt.transport # <<>>)
          => sanitizeKey(toString(initiator.attempt.address))
               \notin DOMAIN initiator.preferences)
  /\ [][(AttemptBegins /\ initiator'.attempt.transport # <<>>) =>
          /\ DOMAIN scanner'.serialChunks = {}
          /\ scanner'.serialTotalChunks = 0
          /\ ~scanner'.serialComplete
          /\ scanner'.serialNumber = <<>>
          /\ arrivals' = <<>>
       ]_vars
  /\ []ChunksArrivedSinceReset
  /\ [][(initiator.pc = "check" /\ initiator'.attempt.returned = "true") =>
          initiator'.preferences[sanitizeKey(toString(initiator.attempt.address))]
            = scanner.serialNumber
       ]_vars

\* C27 witness: an attempt abandoned while it held chunk 1 of 2 was followed
\* by an attempt for the same peer, which received chunk 2 of 2 and, at the
\* end of its wait, holds that chunk alone and is not complete
AbandonedAttemptLeavesNothingWitness ==
  /\ initiator.pc = "check"
  /\ initiator.attempt.earlierChunks = {1}
  /\ arrivals = <<PeerDecrypted[ChunkNotification(2, 2)]>>
  /\ DOMAIN scanner.serialChunks = {2}
  /\ ~scanner.serialComplete
  /\ sanitizeKey(toString(initiator.attempt.address)) \notin DOMAIN initiator.preferences

\* C26: the GetSerial request is written only in an attempt in which a
\* valid Handshake response was decoded.
GetSerialAfterHandshakeResponse ==
  (\E i \in DOMAIN initiator.attempt.transport :
      initiator.attempt.transport[i] = "writeGetSerial")
    => initiator.attempt.handshakeDecoded

\* a step that is a reboot: the count of saves since setup() falls, or the
\* latest attempt is forgotten
Rebooted ==
  \/ initiator'.devicesScanned < initiator.devicesScanned
  \/ initiator'.attempt = NoAttempt /\ initiator.attempt # NoAttempt

\* C28: a reboot clears the flags, the address, the collector and
\* devicesScanned and leaves the namespace as it was, so that isDeviceScanned
\* answers as before; and an attempt for a peer recorded before the latest
\* reboot (devicesScanned is 0) performs no transport operation.
RebootKeepsRegistry ==
  /\ [][Rebooted =>
          /\ initiator'.preferences = initiator.preferences
          /\ \A device \in Devices :
                isDeviceScanned(initiator'.preferences, toString(device.address))
                  = isDeviceScanned(initiator.preferences, toString(device.address))
          /\ initiator'.devicesScanned = 0
          /\ ~initiator'.isConnecting
          /\ ~initiator'.doConnect
          /\ initiator'.pServerAddress = <<>>
          /\ ~initiator'.clientConnected
          /\ initiator'.pc = "loop"
          /\ scanner' = Collector
       ]_vars
  /\ [][(/\ AttemptBegins
         /\ initiator.devicesScanned = 0
         /\ isDeviceScanned(initiator.preferences,
                            toString(initiator.pServerAddress[1]))) =>
          /\ initiator'.attempt.transport = <<>>
          /\ initiator'.attempt.returned = "false"
          /\ ~initiator'.clientConnected
       ]_vars

\* C28 witness: no record was saved since setup(), the namespace has the
\* record of "aa:bb:cc:dd:ee:01", and the attempt for that peer returned
\* false without a transport operation
RebootKeepsRegistryWitness ==
  /\ initiator.devicesScanned = 0
  /\ initiator.attempt.address = <<170, 187, 204, 221, 238, 1>>
  /\ <<97, 97, 98, 98, 99, 99, 100, 100, 101, 101, 48, 49>> \in DOMAIN initiator.preferences
  /\ initiator.attempt.returned = "false"
  /\ initiator.attempt.transport = <<>>

\* the key of the emulator board in the namespace
ResponderKey == sanitizeKey(toString(Responder.address))

\* C30: against the emulator, while the scanner is between the Handshake
\* write and the end of the attempt the emulator is authenticated; a complete
\* collector holds chunk 1 of 1 and SERIAL_NUMBER; the attempt ends
\* returning true with one record more, that of the emulator's address with
\* SERIAL_NUMBER; and an attempt that is connected leads to that record.
EndToEndFetchesSerial ==
  /\ [](initiator.pc \in {"handshake", "wait", "check"} => emulator.authenticated)
  /\ []((initiator.pc \in {"handshake", "wait", "check"} /\ scanner.serialComplete) =>
          /\ DOMAIN scanner.serialChunks = {1}
          /\ scanner.serialTotalChunks = 1
          /\ scanner.serialNumber = SERIAL_NUMBER)
  /\ [][(initiator.pc = "check" /\ initiator'.pc = "loop") =>
          /\ initiator'.attempt.returned = "true"
          /\ ResponderKey \notin DOMAIN initiator.preferences
          /\ DOMAIN initiator'.preferences
               = DOMAIN initiator.preferences \cup {ResponderKey}
          /\ initiator'.preferences[ResponderKey] = SERIAL_NUMBER
       ]_vars
  /\ initiator.clientConnected
       ~> (/\ ResponderKey \in DOMAIN initiator.preferences
           /\ initiator.preferences[ResponderKey] = SERIAL_NUMBER)

\* C30 witness: the attempt for the emulator returned true after the
\* Handshake write, the GetSerial write and the disconnect, and the
\* namespace maps "246f280a0b0c" to SERIAL_NUMBER
EndToEndFetchesSerialWitness ==
  /\ initiator.attempt.address = Responder.address
  /\ initiator.attempt.returned = "true"
  /\ initiator.attempt.transport = TimedOutTransport
  /\ initiator.attempt.handshakeDecoded
  /\ DOMAIN initiator.preferences
       = { <<50, 52, 54, 102, 50, 56, 48, 97, 48, 98, 48, 99>> }
  /\ initiator.preferences[ResponderKey] = SERIAL_NUMBER
  /\ ~connected

\* C31: the scan is stopped only while a discovery is pending or its attempt
\* runs, and a stopped scan is started again (unless the notify callback
\* crashed the board): after an attempt that saved, was skipped or failed,
\* loop() is scanning.
ScanRestarted ==
  /\ [](~initiator.scanning => (initiator.doConnect \/ initiator.pc # "loop"))
  /\ [][(initiator.pc # "loop" /\ initiator'.pc = "loop") => initiator'.scanning]_vars
  /\ (~initiator.scanning) ~> (initiator.scanning \/ scanner.aborted)

\* C31 witness: after a skipped attempt that followed two saved ones the
\* scan runs
ScanRestartedWitness ==
  /\ initiator.scanning
  /\ initiator.pc = "loop"
  /\ ~initiator.doConnect
  /\ initiator.devicesScanned = 2
  /\ initiator.attempt.returned = "false"
  /\ initiator.attempt.transport = <<>>

\* the number of lines of a listing
NumberOfLines(listing) == Cardinality({ i \in DOMAIN listing : listing[i] = 10 })

\* what C34 says of a namespace: the count setup() loaded and the count a
\* call returns are the number of records, and a listing has as many lines
CountIsNumberOfRecords ==
  /\ initiator.pDeviceCountChar = Cardinality(DOMAIN initiator.preferences)
  /\ NumberOfLines(initiator.pDeviceListChar) = initiator.pDeviceCountChar
  /\ initiator.call.name = "getDeviceCountFromNVS" =>
       initiator.call.count = Cardinality(DOMAIN initiator.preferences)
  /\ initiator.call.name = "getAllDevicesFromNVS" =>
       NumberOfLines(initiator.call.listing)
         = getDeviceCountFromNVS(initiator.preferences)

\* C34, for up to 255 records: getDeviceCountFromNVS returns the number of
\* records of the namespace, and the listing has that number of lines.
CountAgreesBelow256 ==
  Cardinality(DOMAIN initiator.preferences) <= 255 => CountIsNumberOfRecords

\* C34, for every number of records: getDeviceCountFromNVS returns the
\* number of records of the namespace, and the listing has that number of
\* lines.
CountAgrees == CountIsNumberOfRecords

\* C34 witness: on a namespace of 255 records the count returned is 255
CountAgreesBelow256Witness ==
  /\ Cardinality(DOMAIN initiator.preferences) = 255
  /\ initiator.call.name = "getDeviceCountFromNVS"
  /\ initiator.call.count = 255
  /\ NumberOfLines(initiator.pDeviceListChar) = 255

\* C35: from the notification that sets serialComplete until the next
\* attempt resets the collector, no step changes serialNumber.
SerialFrozenOnceComplete ==
  [][(scanner.serialComplete /\ scanner'.serialComplete) =>
       scanner'.serialNumber = scanner.serialNumber
    ]_vars

\* C29: the identifier rebuilt from the key of a saved identifier is that
\* identifier; after saveDeviceData the listing it reads back holds the line
\* "identifier|serial\n", and is that line alone when the namespace has one
\* record; a listing holds such a line for every record.
ListingReconstructs ==
  /\ initiator.call.name = "saveDeviceData" =>
       /\ WithColons(sanitizeKey(initiator.call.macAddress), 1) = initiator.call.macAddress
       /\ Contains(initiator.pDeviceListChar,
                   initiator.call.macAddress \o <<124>> \o initiator.call.serialNumber
                     \o <<10>>)
       /\ Cardinality(DOMAIN initiator.preferences) = 1 =>
            initiator.pDeviceListChar
              = initiator.call.macAddress \o <<124>> \o initiator.call.serialNumber
                  \o <<10>>
  /\ initiator.call.name = "getAllDevicesFromNVS" =>
       \A macAddress \in RegistryMacs :
          sanitizeKey(macAddress) \in DOMAIN initiator.preferences =>
            Contains(initiator.call.listing,
                     macAddress \o <<124>> \o initiator.preferences[sanitizeKey(macAddress)]
                       \o <<10>>)

\* C29 witness: "aa:bb:cc:dd:ee:01" saved with "S1" into the empty namespace
\* is listed as "aa:bb:cc:dd:ee:01|S1\n"
ListingReconstructsWitness ==
  /\ initiator.call.name = "saveDeviceData"
  /\ DOMAIN initiator.preferences = { <<97, 97, 98, 98, 99, 99, 100, 100, 101, 101, 48, 49>> }
  /\ initiator.pDeviceListChar
       = <<97, 97, 58, 98, 98, 58, 99, 99, 58, 100, 100, 58, 101, 101, 58, 48, 49,
           124, 83, 49, 10>>

----------------------------------------------------------------------------
(* Properties of the codec                                                 *)

\* the byte sum of the packet is 0 modulo 256 and validateChecksum accepts it
PassesChecksum(packet) ==
  /\ ByteSum(packet) % 256 = 0
  /\ validateChecksum(packet)

\* C16: for every instruction and every payload of at most 251 bytes, the
\* packet createResponse and createPacket build has, once decrypted by the
\* receiver, a byte sum of 0 modulo 256 and passes validateChecksum.
ChecksumInvariant ==
  (cipher.call \in {"createResponse", "createPacket"} /\ Len(cipher.input) <= 252) =>
    PassesChecksum(decryptData(cipher.output))

\* C16 witness: createResponse built a packet with 251 payload bytes
ChecksumInvariantWitness ==
  /\ cipher.call = "createResponse"
  /\ Len(cipher.input) = 252
  /\ Len(cipher.output) = 255

\* C17: decryptData of what encryptData returned for b is b, with the length
\* of b.
RoundTrip ==
  (cipher.call = "decryptData" /\ cipher.source # <<>>) =>
    /\ cipher.output = cipher.source[1]
    /\ Len(cipher.output) = Len(cipher.source[1])

\* C17 witness: a string of the largest packet size came back
RoundTripWitness ==
  /\ cipher.call = "decryptData"
  /\ cipher.source # <<>>
  /\ Len(cipher.source[1]) = 255
  /\ cipher.output = LongBytes(255)

\* C18: whatever calls ran before, encryptData and decryptData return what
\* the primitive computes for the input from the register AES_IV, and leave
\* the register that computation leaves.
CipherStateless ==
  /\ cipher.call = "encryptData" =>
       /\ cipher.output
            = mbedtls_aes_crypt_cfb128(MBEDTLS_AES_ENCRYPT, AES_IV, cipher.input)
       /\ cipher.iv_copy = CfbRegister(AES_IV, cipher.output)
  /\ cipher.call = "decryptData" =>
       /\ cipher.output
            = mbedtls_aes_crypt_cfb128(MBEDTLS_AES_DECRYPT, AES_IV, cipher.input)
       /\ cipher.iv_copy = CfbRegister(AES_IV, cipher.input)

\* C18 witness: a two-block string was encrypted after an earlier call
CipherStatelessWitness ==
  /\ cipher.call = "encryptData"
  /\ ~cipher.first
  /\ cipher.input = LongBytes(17)
  /\ cipher.iv_copy # AES_IV

\* the length byte of the packet an encoder returned
LengthByte(encoded) == decryptData(encoded)[2]

\* C32: the packet createResponse or createPacket returns for a payload of
\* n bytes has n + 4 bytes and the length byte (n + 4) % 256: the byte count
\* for n <= 251, another value for a longer payload.
LengthByteCountsPacket ==
  cipher.call \in {"createResponse", "createPacket"} =>
    /\ Len(cipher.output) = (Len(cipher.input) - 1) + 4
    /\ LengthByte(cipher.output) = ((Len(cipher.input) - 1) + 4) % 256
    /\ Len(cipher.input) - 1 <= 251 => LengthByte(cipher.output) = Len(cipher.output)
    /\ Len(cipher.input) - 1 > 251 => LengthByte(cipher.output) # Len(cipher.output)

\* C32 witness: createResponse returned a packet of 255 bytes for a payload
\* of 251 bytes, its length byte 255
LengthByteCountsPacketWitness ==
  /\ cipher.call = "createResponse"
  /\ Len(cipher.input) = 252
  /\ Len(cipher.output) = 255
  /\ LengthByte(cipher.output) = 255

----------------------------------------------------------------------------
(* Properties of the scanner's serial collector                            *)

\* the notifications since the reset are GetSerial chunks that all declare
\* N chunks and carry distinct indices in 1..N
ChunksOf(N) ==
  /\ arrivals # <<>>
  /\ \A k \in 1..Len(arrivals) :
        /\ Len(arrivals[k]) >= 6
        /\ arrivals[k][1] = OPCODE_RESPONSE
        /\ validateChecksum(arrivals[k])
        /\ arrivals[k][3] = INSTR_GET_SERIAL
        /\ arrivals[k][4] \in 1..N
        /\ arrivals[k][5] = N
  /\ Cardinality({ arrivals[k][4] : k \in 1..Len(arrivals) }) = Len(arrivals)

\* the data bytes of the arrived chunk with index i
ArrivedData(i) ==
  LET k == CHOOSE k \in 1..Len(arrivals) : arrivals[k][4] = i
  IN SubSeq(arrivals[k], 6, Len(arrivals[k]) - 1)

RECURSIVE AscendingSerial(_, _)
\* the non-zero data bytes of chunks i..N, by ascending index
AscendingSerial(i, N) ==
  IF i > N THEN <<>>
  ELSE SelectSeq(ArrivedData(i), LAMBDA byte : byte # 0) \o AscendingSerial(i + 1, N)

\* the collector after these chunks: complete exactly when N have arrived,
\* and then holding the serial by ascending index
Reassembled(N) ==
  /\ ~scanner.aborted
  /\ scanner.serialComplete <=> (Len(arrivals) = N)
  /\ Len(arrivals) < N => scanner.serialNumber = <<>>
  /\ Len(arrivals) = N => scanner.serialNumber = AscendingSerial(1, N)

\* C20, for N up to MaxSerialChunks: from an empty collector, while the notifications are chunks with
\* distinct indices in 1..N that all declare N, in whatever order,
\* serialComplete holds exactly when N of them have arrived, and then
\* serialNumber is the non-zero data bytes of chunks 1..N by ascending index.
SerialOrderIndependent ==
  \A N \in 1..MaxSerialChunks : ChunksOf(N) => Reassembled(N)

\* C20, for every N a chunk can declare: N is the totalChunks byte of the
\* first notification since the reset.
SerialOrderIndependentAnyN ==
  (arrivals # <<>> /\ Len(arrivals[1]) >= 6 /\ ChunksOf(arrivals[1][5])) =>
     Reassembled(arrivals[1][5])

\* C20 witness: chunks 3, 1, 2 of 3 arrived in that order and the serial is
\* that of the order 1, 2, 3
SerialOrderIndependentWitness ==
  /\ ChunksOf(3)
  /\ Len(arrivals) = 3
  /\ <<arrivals[1][4], arrivals[2][4], arrivals[3][4]>> = <<3, 1, 2>>
  /\ scanner.serialComplete
  /\ scanner.serialNumber = <<65, 49, 66, 50, 67, 51>>

\* the step delivered a notification to notifyCallback
Arrived == Len(arrivals') = Len(arrivals) + 1

\* a decrypted notification that passes the size, opcode and checksum tests
\* of notifyCallback and has the instruction GetSerial
ReadAsSerialChunk(decrypted) ==
  /\ Len(decrypted) >= 5
  /\ decrypted[1] = OPCODE_RESPONSE
  /\ validateChecksum(decrypted)
  /\ decrypted[3] = INSTR_GET_SERIAL

\* C38: every notification that passes the validation of notifyCallback and
\* has the instruction GetSerial has at least 6 bytes, so that its chunk data
\* range is well formed and bytes 3 and 4 are a chunk header; the 5-byte
\* failure-coded GetSerial response leaves the collector as it was.
SerialChunkRangeWellFormed ==
  [][(Arrived /\ ReadAsSerialChunk(arrivals'[Len(arrivals')])) =>
       /\ Len(arrivals'[Len(arrivals')]) >= 6
       /\ arrivals'[Len(arrivals')] = decryptData(createResponse(INSTR_GET_SERIAL, <<0>>)) =>
            scanner' = scanner
    ]_vars

\* C39: when a notification of at least 6 bytes sets serialComplete, every
\* index 1..totalChunks is in the chunk map and serialNumber is not empty.
CompleteHasEveryIndex ==
  [][(Arrived /\ Len(arrivals'[Len(arrivals')]) >= 6
        /\ ~scanner.serialComplete /\ scanner'.serialComplete) =>
       /\ \A i \in 1..scanner'.serialTotalChunks : i \in DOMAIN scanner'.serialChunks
       /\ scanner'.serialNumber # <<>>
    ]_vars

\* the number of connectAndFetchSerial calls made with the object
Uses(object) ==
  Cardinality({ k \in DOMAIN initiator.attempted :
                  initiator.attempted[k].object = object })

====
